---------------------------- MODULE Spec2Model ----------------------------
(***************************************************************************)
(* TotalDepth RP66V1 XML index: the run-length-encoded positional index,   *)
(* its XML serialisation (IndexXML.py, core/LogPassXML.py) and the read    *)
(* path that rebuilds a Logical Index from a document.                     *)
(*                                                                         *)
(* Text is modelled as sequences of one-character strings, so that         *)
(* formatting (f'{n:d}', f'0x{n:x}', str(float)) and parsing (int(),       *)
(* int(s, 16), float()) are computed character by character.               *)
(***************************************************************************)
EXTENDS Integers, Sequences, FiniteSets, TLC

VARIABLES
    \* The RLE engine and one serialised RLE block.
    values,      \* the sequence handed to Rle.create_rle
    hex_output,  \* xml_rle_write's hex_output argument
    consumed,    \* how many of the values create_rle has added so far
    rle,         \* the RLE under construction: a sequence of RLE items
    block,       \* the RLE block element written by xml_rle_write
    tampered,    \* whether the element was edited after it was written
    rle_read,    \* what xml_rle_read made of the element
    rpc,         \* where the RLE scenario stands
    \* One Frame Array and its IFLR side-table.
    iflrs,       \* the side-table in memory: (frame_number, lrsh_position, x_axis)
    fa_element,  \* the FrameArray element written by frame_array_to_XML
    fa_edited,   \* which hand edits the element has had
    iflr_read,   \* what IndexXML.iflr_data_from_xml made of the element
    lp_read,     \* what LogPassXML.frame_array_from_XML made of the element
    html_frame,  \* the last entry destructured by HTML._write_frame_array_in_html
    fpc,         \* where the Frame Array scenario stands
    \* One Logical Index, its document and the read of the document.
    logical_file_sequence,  \* the Logical Index in memory
    archive_root,           \* read_logical_index_from_xml's archive_root
    binary_kind,            \* what is found where the binary file was indexed
    doc,                    \* the document written for the Logical Index
    doc_edited,             \* which hand edits the document has had
    ipc,                    \* the next step of the write and the read
    read_exc,               \* the exception that ended the read, or "none"
    logical_index,          \* the Logical Index the read is building
    logical_file_count,     \* the 'count' read from LogicalFiles
    rp66v1file,             \* the binary file handle of the read
    events,                 \* what the read has parsed, looked up and opened
    lf_next,                \* the LogicalFile element the read takes next
    \* The resolution of the Visible Record of one LRSH position.
    vr_positions,  \* the Visible Record positions of the index
    lrsh_target,   \* the LRSH position to resolve
    vr_prior,      \* what visible_record_prior made of it
    vpc,           \* where the resolution stands
    \* One Log Pass written on its own.
    lp_input,   \* the Log Pass handed to log_pass_to_XML
    lp_map,     \* the IFLR side-table map handed to it
    lp_result,  \* what log_pass_to_XML wrote and how it ended
    lpc,        \* where the Log Pass scenario stands
    \* One run of main over a batch of files.
    batch_files,   \* the files of the batch, in the order of the walk
    jobs_mode,     \* sequential or parallel
    jobs,          \* the job count given to main
    recurse,       \* the recursion flag given to main
    pool,          \* the processes of the worker pool, 0 without a pool
    plot_wanted,   \* whether a gnuplot directory was given
    task_out,      \* the outcome of each worker task that has run
    batch_result,  \* the IndexResult collected for each file
    outputs,       \* what lies at the output path of each file
    batch_next,    \* the next file to index or to collect
    batch_exc,     \* the exception that left the batch driver
    printed,       \* what main has printed and logged
    exit_code,     \* the value main returned
    mpc,           \* where main stands
    \* One Logical File written on its own.
    lfw_input,    \* the Logical File handed to write_logical_file_to_xml
    lfw_private,  \* the private flag handed to it
    lfw_result,   \* the LogicalFile element it wrote
    wpc,           \* where the write stands
    \* The side-table of one Frame Array read and then traversed.
    st_iflrs,   \* the side-table the FrameArray element was written from
    st_reader,  \* the function of the read path that reads the element
    st_table,   \* the object the reader left for the side-table
    st_seen,    \* what each traversal of that object yielded
    spc,         \* where the traversals stand
    \* One Frame Channel written and read.
    ch_input,    \* the Frame Channel handed to frame_channel_to_XML
    ch_element,  \* the Channel element written for it
    ch_read,     \* what frame_channel_from_XML made of the element
    cpc,         \* where the channel scenario stands
    \* The frame reader of the HTML summary.
    ff_iflrs,      \* the side-table of the Frame Array whose frames are read
    ff_positions,  \* the Visible Record positions of the file
    frame_slice,   \* the slice of frames asked for
    ff_rows,       \* the rows init_arrays allocated, 0 before it is called
    ff_calls,      \* the calls of get_file_logical_data made, in order
    ff_stored,     \* the calls of frame_array.read made, in order
    ffpc           \* the step of the frame reader

rleVars == <<values, hex_output, consumed, rle, block, tampered, rle_read, rpc>>

faVars == <<iflrs, fa_element, fa_edited, iflr_read, lp_read, html_frame, fpc>>

ixVars == <<logical_file_sequence, archive_root, binary_kind, doc, doc_edited, ipc,
           read_exc, logical_index, logical_file_count, rp66v1file, events, lf_next>>

vrVars == <<vr_positions, lrsh_target, vr_prior, vpc>>

lpVars == <<lp_input, lp_map, lp_result, lpc>>

mainVars == <<batch_files, jobs_mode, jobs, recurse, pool, plot_wanted, task_out,
             batch_result, outputs, batch_next, batch_exc, printed, exit_code, mpc>>

lfwVars == <<lfw_input, lfw_private, lfw_result, wpc>>

stVars == <<st_iflrs, st_reader, st_table, st_seen, spc>>

chVars == <<ch_input, ch_element, ch_read, cpc>>

ffVars == <<ff_iflrs, ff_positions, frame_slice, ff_rows, ff_calls, ff_stored, ffpc>>

vars == <<rleVars, faVars, ixVars, vrVars, lpVars, mainVars, lfwVars, stVars, chVars, ffVars>>

(***************************************************************************)
(* Bounds of the model.                                                    *)
(***************************************************************************)
\* Longest input sequence handed to create_rle.
MaxLen == 3
\* Significant decimal digits kept by the model's floating point arithmetic
\* (Python's binary64 keeps 53 bits; the model rounds the same way, to
\* nearest with ties to even, at this many decimal digits).
FloatDigits == 2

(***************************************************************************)
(* Characters and Python's text <-> integer conversions.                   *)
(***************************************************************************)
HexChars == <<"0", "1", "2", "3", "4", "5", "6", "7", "8", "9",
              "a", "b", "c", "d", "e", "f">>

\* The value of a digit character in the given base, or -1.
DigitValue(c, base) ==
    IF \E i \in 1..base : HexChars[i] = c
    THEN (CHOOSE i \in 1..base : HexChars[i] = c) - 1
    ELSE -1

RECURSIVE Digits(_, _)
\* The digits of n >= 0 in the given base, most significant first.
Digits(n, base) ==
    IF n < base THEN <<HexChars[n + 1]>>
    ELSE Digits(n \div base, base) \o <<HexChars[(n % base) + 1]>>

\* f'{n:d}' and f'{n}' of an int.
FormatDec(n) == IF n < 0 THEN <<"-">> \o Digits(-n, 10) ELSE Digits(n, 10)

\* f'0x{n:x}' of an int: the sign, when there is one, follows the prefix.
FormatHex(n) ==
    <<"0", "x">> \o (IF n < 0 THEN <<"-">> \o Digits(-n, 16) ELSE Digits(n, 16))

\* str.startswith('0x')
StartsWith0x(s) == Len(s) >= 2 /\ s[1] = "0" /\ s[2] = "x"

\* '.' in s
HasDot(s) == \E i \in 1..Len(s) : s[i] = "."

RECURSIVE DigitsValue(_, _)
\* The value of a non-empty string of digits of the base.
DigitsValue(s, base) ==
    IF Len(s) = 1 THEN DigitValue(s[1], base)
    ELSE DigitsValue(SubSeq(s, 1, Len(s) - 1), base) * base
         + DigitValue(s[Len(s)], base)

AllDigits(s, base) ==
    Len(s) >= 1 /\ \A i \in 1..Len(s) : DigitValue(s[i], base) >= 0

Tail0(s, n) == SubSeq(s, n + 1, Len(s))

\* Python's int(s, base) for base 10 and 16: an optional sign, then for base
\* 16 an optional '0x', then at least one digit of the base.  Anything else
\* is a ValueError.
IsSigned(s) == Len(s) >= 1 /\ s[1] \in {"-", "+"}

IsNegative(s) == Len(s) >= 1 /\ s[1] = "-"

Unsigned(s) == IF IsSigned(s) THEN Tail0(s, 1) ELSE s

Unprefixed(body, base) ==
    IF base = 16 /\ StartsWith0x(body) THEN Tail0(body, 2) ELSE body

PyIntDigits(digits, negative, base) ==
    IF AllDigits(digits, base)
    THEN [exc |-> "none",
          val |-> IF negative THEN 0 - DigitsValue(digits, base)
                  ELSE DigitsValue(digits, base)]
    ELSE [exc |-> "ValueError", val |-> 0]

PyInt(s, base) == PyIntDigits(Unprefixed(Unsigned(s), base), IsNegative(s), base)

\* IndexXML.xml_integer_attribute_read applied to an attribute's text.
xml_integer_attribute_read(attribute) ==
    PyInt(attribute, IF StartsWith0x(attribute) THEN 16 ELSE 10)

(***************************************************************************)
(* Numbers.  A Python int n is [f |-> FALSE, m |-> n, e |-> 0].  A Python  *)
(* float is [f |-> TRUE, m |-> m, e |-> e], the value m * 10^e, with m of  *)
(* at most FloatDigits digits and no trailing zero (zero is m = 0, e = 0). *)
(***************************************************************************)
RECURSIVE Pow10(_)
Pow10(k) == IF k <= 0 THEN 1 ELSE 10 * Pow10(k - 1)

Abs(n) == IF n < 0 THEN 0 - n ELSE n

Min(a, b) == IF a <= b THEN a ELSE b

PyIntNum(n) == [f |-> FALSE, m |-> n, e |-> 0]

RECURSIVE StripZeros(_, _)
\* m * 10^e with the trailing zeros of m moved into the exponent.
StripZeros(m, e) ==
    IF m = 0 THEN [f |-> TRUE, m |-> 0, e |-> 0]
    ELSE IF m % 10 = 0 THEN StripZeros(m \div 10, e + 1)
    ELSE [f |-> TRUE, m |-> m, e |-> e]

\* How many trailing digits of a >= 0 do not fit in FloatDigits digits.
DropDigits(a) ==
    IF a = 0 THEN 0
    ELSE IF Len(Digits(a, 10)) > FloatDigits THEN Len(Digits(a, 10)) - FloatDigits
    ELSE 0

\* a \div unit rounded to nearest, ties to the even neighbour.
RoundHalfEven(a, unit) ==
    IF unit > 1 /\ (2 * (a % unit) > unit
                     \/ (2 * (a % unit) = unit /\ (a \div unit) % 2 = 1))
    THEN (a \div unit) + 1
    ELSE a \div unit

RoundDropping(m, e, drop) ==
    StripZeros(IF m < 0 THEN 0 - RoundHalfEven(Abs(m), Pow10(drop))
               ELSE RoundHalfEven(Abs(m), Pow10(drop)),
               e + drop)

\* The float nearest to m * 10^e: round to FloatDigits significant digits,
\* ties to the even neighbour.
RoundFloat(m, e) == RoundDropping(m, e, DropDigits(Abs(m)))

PyFloat(m, e) == RoundFloat(m, e)

\* The canonical (significand, exponent) of a number: numeric equality of
\* Python's int and float values (3 == 3.0).
Canon(x) == LET c == StripZeros(x.m, x.e) IN <<c.m, c.e>>

NumEq(x, y) == Canon(x) = Canon(y)

\* x + sign * y, in int arithmetic when both are ints and in rounded float
\* arithmetic otherwise.
AlignedSum(x, y, sign, emin) ==
    x.m * Pow10(x.e - emin) + sign * y.m * Pow10(y.e - emin)

NumAddSigned(x, y, sign) ==
    IF x.f \/ y.f
    THEN RoundFloat(AlignedSum(x, y, sign, Min(x.e, y.e)), Min(x.e, y.e))
    ELSE PyIntNum(AlignedSum(x, y, sign, 0))

NumAdd(x, y) == NumAddSigned(x, y, 1)

NumSub(x, y) == NumAddSigned(x, y, -1)

RECURSIVE Zeros(_)
Zeros(n) == IF n <= 0 THEN <<>> ELSE <<"0">> \o Zeros(n - 1)

\* The fixed notation of ds * 10^e: it always holds a '.'.
FixedNotation(ds, e) ==
    IF e >= 0 THEN ds \o Zeros(e) \o <<".", "0">>
    ELSE IF Len(ds) > 0 - e
         THEN SubSeq(ds, 1, Len(ds) + e) \o <<".">> \o SubSeq(ds, Len(ds) + e + 1, Len(ds))
         ELSE <<"0", ".">> \o Zeros(0 - e - Len(ds)) \o ds

\* The exponent notation of the digits ds with decimal exponent sci: a
\* one-digit significand is written without a '.'.
ExponentNotation(ds, sci) ==
    <<ds[1]>> \o (IF Len(ds) > 1 THEN <<".">> \o SubSeq(ds, 2, Len(ds)) ELSE <<>>)
    \o <<"e">> \o (IF sci < 0 THEN <<"-">> ELSE <<"+">>)
    \o (IF Abs(sci) < 10 THEN <<"0">> ELSE <<>>) \o Digits(Abs(sci), 10)

FormatDigits(ds, e, sci) ==
    IF sci >= -4 /\ sci < 16 THEN FixedNotation(ds, e) ELSE ExponentNotation(ds, sci)

\* str(x) of a float: fixed notation when the decimal exponent sci satisfies
\* -4 <= sci < 16 and exponent notation otherwise.
FormatFloat(x) ==
    (IF x.m < 0 THEN <<"-">> ELSE <<>>)
    \o (IF x.m = 0 THEN <<"0", ".", "0">>
        ELSE FormatDigits(Digits(Abs(x.m), 10), x.e,
                          x.e + Len(Digits(Abs(x.m), 10)) - 1))

\* f'{x}' of an int or a float.
FormatNum(x) == IF x.f THEN FormatFloat(x) ELSE FormatDec(x.m)

\* The first index of character c in s, or 0.
IndexOf(s, c) ==
    IF \E i \in 1..Len(s) : s[i] = c
    THEN CHOOSE i \in 1..Len(s) : s[i] = c /\ \A j \in 1..(i - 1) : s[j] # c
    ELSE 0

\* The part of s before the first c (all of s when there is none).
Before(s, c) == IF IndexOf(s, c) = 0 THEN s ELSE SubSeq(s, 1, IndexOf(s, c) - 1)

\* The part of s after the first c (none when there is no c).
After(s, c) == IF IndexOf(s, c) = 0 THEN <<>> ELSE Tail0(s, IndexOf(s, c))

PyFloatValue(digits, fraction_len, exponent, negative) ==
    IF AllDigits(digits, 10) /\ exponent.exc = "none"
    THEN [exc |-> "none",
          val |-> RoundFloat(IF negative THEN 0 - DigitsValue(digits, 10)
                             ELSE DigitsValue(digits, 10),
                             exponent.val - fraction_len)]
    ELSE [exc |-> "ValueError", val |-> PyIntNum(0)]

PyFloatMantissa(mant, exponent, negative) ==
    PyFloatValue(Before(mant, ".") \o After(mant, "."), Len(After(mant, ".")),
                 exponent, negative)

PyFloatBody(body, negative) ==
    PyFloatMantissa(Before(body, "e"),
                    IF IndexOf(body, "e") = 0 THEN [exc |-> "none", val |-> 0]
                    ELSE PyInt(After(body, "e"), 10),
                    negative)

\* Python's float(s): [sign] digits [. digits] [e [sign] digits], at least one
\* digit around the point.
PyFloatParse(s) == PyFloatBody(Unsigned(s), IsNegative(s))

\* IndexXML.xml_rle_read._rle_convert_datum_or_stride
IntResult(r) == [exc |-> r.exc, val |-> PyIntNum(r.val)]

rle_convert_datum_or_stride(attr) ==
    IF ~StartsWith0x(attr) /\ HasDot(attr) THEN PyFloatParse(attr)
    ELSE IntResult(PyInt(attr, IF StartsWith0x(attr) THEN 16 ELSE 10))

(***************************************************************************)
(* TotalDepth.common.Rle: an RLE is a sequence of items                    *)
(* [datum, stride, repeat], each standing for repeat + 1 values.           *)
(***************************************************************************)
RLEItem(v) == [datum |-> v, stride |-> PyIntNum(0), repeat |-> 0]

RECURSIVE ItemValues(_, _, _)
\* The first n values of a run starting at v with the given stride.
ItemValues(v, stride, n) ==
    IF n <= 0 THEN <<>> ELSE <<v>> \o ItemValues(NumAdd(v, stride), stride, n - 1)

RLEItemValues(item) == ItemValues(item.datum, item.stride, item.repeat + 1)

\* The last value an item stands for.
RLEItemLast(item) == RLEItemValues(item)[item.repeat + 1]

\* A variant of RLEItemAbsorbs without the case of an item of one value,
\* whose stride is not fixed yet.
RLEItemAbsorbs_NoSingleCase(item, v) ==
    NumEq(NumSub(v, RLEItemLast(item)), item.stride)

\* RLEItem.add: TRUE when v continues the item.  An item of one value takes
\* any second value, which fixes its stride; after that only a value one
\* stride beyond the last one.
RLEItemAbsorbs(item, v) ==
    \/ item.repeat = 0
    \/ NumEq(NumSub(v, RLEItemLast(item)), item.stride)

RLEItemAdd(item, v) ==
    IF item.repeat = 0
    THEN [item EXCEPT !.stride = NumSub(v, item.datum), !.repeat = 1]
    ELSE [item EXCEPT !.repeat = item.repeat + 1]

\* RLE.add
RLEAdd(r, v) ==
    IF Len(r) > 0 /\ RLEItemAbsorbs(r[Len(r)], v)
    THEN [r EXCEPT ![Len(r)] = RLEItemAdd(r[Len(r)], v)]
    ELSE Append(r, RLEItem(v))

RECURSIVE create_rle(_)
\* Rle.create_rle: add every value in order to an empty RLE.
create_rle(vs) ==
    IF Len(vs) = 0 THEN <<>>
    ELSE RLEAdd(create_rle(SubSeq(vs, 1, Len(vs) - 1)), vs[Len(vs)])

RECURSIVE RLEValues(_)
\* RLE.values: every item expanded, in item order.
RLEValues(r) ==
    IF Len(r) = 0 THEN <<>> ELSE RLEItemValues(r[1]) \o RLEValues(Tail(r))

RECURSIVE num_values(_)
\* RLE.num_values: the sum of repeat + 1 over the items.
num_values(r) ==
    IF Len(r) = 0 THEN 0 ELSE r[1].repeat + 1 + num_values(Tail(r))

(***************************************************************************)
(* IndexXML.xml_rle_write and xml_rle_read.  An RLE block element is       *)
(* [count, rle_len, items], items being the attributes of its RLE          *)
(* children; every attribute is text.                                      *)
(***************************************************************************)
NoElement == [count |-> <<>>, rle_len |-> <<>>, items |-> <<>>]

\* f'0x{v:x}' if hex_output else f'{v}': the 'x' format code raises a
\* ValueError for a float.
FormatDatum(v, hex) ==
    IF hex
    THEN IF v.f THEN [exc |-> "ValueError", text |-> <<>>]
         ELSE [exc |-> "none", text |-> FormatHex(v.m)]
    ELSE [exc |-> "none", text |-> FormatNum(v)]

\* The attributes of one RLE child, and whether formatting them raised.
RleItemAttributes(datum, stride, repeat) ==
    [exc    |-> IF datum.exc = "none" /\ stride.exc = "none" THEN "none" ELSE "ValueError",
     datum  |-> datum.text,
     stride |-> stride.text,
     repeat |-> FormatDec(repeat)]

RleChildren(r, hex) ==
    [i \in 1..Len(r) |->
        RleItemAttributes(FormatDatum(r[i].datum, hex), FormatDatum(r[i].stride, hex),
                          r[i].repeat)]

\* The element with the number of items written as its 'count'.
RleElement_CountItems(r, children) ==
    IF \E i \in 1..Len(children) : children[i].exc # "none"
    THEN [exc |-> "ValueError", elem |-> NoElement]
    ELSE [exc |-> "none",
          elem |-> [count   |-> FormatDec(Len(r)),
                    rle_len |-> FormatDec(Len(r)),
                    items   |-> [i \in 1..Len(children) |->
                                  [datum  |-> children[i].datum,
                                   stride |-> children[i].stride,
                                   repeat |-> children[i].repeat]]]]

RleElement(r, children) ==
    IF \E i \in 1..Len(children) : children[i].exc # "none"
    THEN [exc |-> "ValueError", elem |-> NoElement]
    ELSE [exc |-> "none",
          elem |-> [count   |-> FormatDec(num_values(r)),
                    rle_len |-> FormatDec(Len(r)),
                    items   |-> [i \in 1..Len(children) |->
                                  [datum  |-> children[i].datum,
                                   stride |-> children[i].stride,
                                   repeat |-> children[i].repeat]]]]

xml_rle_write(r, hex) == RleElement(r, RleChildren(r, hex))

\* The three conversions of one RLE child, in the order datum, repeat,
\* stride.
ConvertItem(it) ==
    [a \in {"datum", "repeat", "stride"} |-> rle_convert_datum_or_stride(it[a])]

ConvertItems(items) == [i \in 1..Len(items) |-> ConvertItem(items[i])]

\* The RLE items read from the converted children.
ReadItems(converted) ==
    [i \in 1..Len(converted) |->
        [datum  |-> converted[i]["datum"].val,
         stride |-> converted[i]["stride"].val,
         repeat |-> converted[i]["repeat"].val.m]]

ItemConverts(c) == \A a \in {"datum", "repeat", "stride"} : c[a].exc = "none"

\* The sanity check of xml_rle_read: 'count' and 'rle_len' are read with
\* int() and compared with the RLE that was built.
RleSanityCheck(r, count, rle_len) ==
    IF count.exc # "none" THEN [exc |-> "ValueError", val |-> <<>>]
    ELSE IF count.val # num_values(r)
    THEN [exc |-> "ExceptionIndexXMLRead(count)", val |-> <<>>]
    ELSE IF rle_len.exc # "none" THEN [exc |-> "ValueError", val |-> <<>>]
    ELSE IF rle_len.val # Len(r)
    THEN [exc |-> "ExceptionIndexXMLRead(rle_len)", val |-> <<>>]
    ELSE [exc |-> "none", val |-> r]

RleFromConverted(element, converted) ==
    IF \E i \in 1..Len(converted) : ~ItemConverts(converted[i])
    THEN [exc |-> "ValueError", val |-> <<>>]
    ELSE RleSanityCheck(ReadItems(converted), PyInt(element.count, 10),
                        PyInt(element.rle_len, 10))

\* xml_rle_read: the children are converted first, then the sanity check.
xml_rle_read(element) == RleFromConverted(element, ConvertItems(element.items))

(***************************************************************************)
(* The RLE scenario: create_rle adds the values one by one; the finished   *)
(* RLE is written as a block; the block may be edited by hand (a corrupted *)
(* or foreign document); the block is read back.                           *)
(***************************************************************************)
IntValues == {-3, 0, 1, 2, 12}

FloatValues == {PyFloat(5, -1), PyFloat(1, 0), PyFloat(99, -1), PyFloat(12, -2),
                PyFloat(1, -5)}

\* The sequence of the documented example, create([5, 7, 9, 11, 20]).
ExampleValues == <<PyIntNum(5), PyIntNum(7), PyIntNum(9), PyIntNum(11), PyIntNum(20)>>

SeqsUpTo(S, n) == UNION {[1..k -> S] : k \in 0..n}

InputSequences ==
    SeqsUpTo({PyIntNum(n) : n \in IntValues}, MaxLen)
    \cup SeqsUpTo(FloatValues, MaxLen)
    \cup {ExampleValues}

RleIdle ==
    /\ values = <<>>
    /\ hex_output = FALSE
    /\ consumed = 0
    /\ rle = <<>>
    /\ block = NoElement
    /\ tampered = FALSE
    /\ rle_read = [exc |-> "unread", val |-> <<>>]
    /\ rpc = "idle"

Unread == [exc |-> "unread", val |-> <<>>]

NoFrame == [frame |-> 0]

FaIdle ==
    /\ iflrs = <<>>
    /\ fa_element = <<>>
    /\ fa_edited = {}
    /\ iflr_read = Unread
    /\ lp_read = Unread
    /\ html_frame = NoFrame
    /\ fpc = "idle"

\* A relative path without parts: the empty string.
NoPath == [abs |-> FALSE, parts |-> <<>>]

IxIdle ==
    /\ logical_file_sequence = <<>>
    /\ archive_root = NoPath
    /\ binary_kind = "absent"
    /\ doc = <<>>
    /\ doc_edited = {}
    /\ ipc = "idle"
    /\ read_exc = "none"
    /\ logical_index = <<>>
    /\ logical_file_count = 0
    /\ rp66v1file = "closed"
    /\ events = <<>>
    /\ lf_next = 0

VrIdle ==
    /\ vr_positions = <<>>
    /\ lrsh_target = 0
    /\ vr_prior = [exc |-> "unread", val |-> 0]
    /\ vpc = "idle"

LpIdle ==
    /\ lp_input = <<>>
    /\ lp_map = <<>>
    /\ lp_result = [exc |-> "unwritten"]
    /\ lpc = "idle"

MainIdle ==
    /\ batch_files = <<>>
    /\ jobs_mode = "sequential"
    /\ jobs = 0
    /\ recurse = FALSE
    /\ pool = 0
    /\ plot_wanted = FALSE
    /\ task_out = <<>>
    /\ batch_result = <<>>
    /\ outputs = <<>>
    /\ batch_next = 0
    /\ batch_exc = "none"
    /\ printed = <<>>
    /\ exit_code = -1
    /\ mpc = "idle"

LfwIdle ==
    /\ lfw_input = <<>>
    /\ lfw_private = FALSE
    /\ lfw_result = [exc |-> "unwritten"]
    /\ wpc = "idle"

StIdle ==
    /\ st_iflrs = <<>>
    /\ st_reader = "none"
    /\ st_table = [exc |-> "unread"]
    /\ st_seen = <<>>
    /\ spc = "idle"

ChIdle ==
    /\ ch_input = <<>>
    /\ ch_element = <<>>
    /\ ch_read = [exc |-> "unread"]
    /\ cpc = "idle"

FfIdle ==
    /\ ff_iflrs = <<>>
    /\ ff_positions = <<>>
    /\ frame_slice = <<>>
    /\ ff_rows = 0
    /\ ff_calls = <<>>
    /\ ff_stored = <<>>
    /\ ffpc = "idle"

InitRle ==
    /\ values \in InputSequences
    /\ hex_output \in BOOLEAN
    /\ consumed = 0
    /\ rle = <<>>
    /\ block = NoElement
    /\ tampered = FALSE
    /\ rle_read = [exc |-> "unread", val |-> <<>>]
    /\ rpc = "create"
    /\ FaIdle
    /\ IxIdle
    /\ VrIdle
    /\ LpIdle
    /\ MainIdle
    /\ LfwIdle
    /\ StIdle
    /\ ChIdle
    /\ FfIdle

\* One turn of create_rle's loop: RLE.add of the next value.
CreateRleAdd ==
    /\ rpc = "create"
    /\ consumed < Len(values)
    /\ rle' = RLEAdd(rle, values[consumed + 1])
    /\ consumed' = consumed + 1
    /\ UNCHANGED <<values, hex_output, block, tampered, rle_read, rpc>>
    /\ UNCHANGED <<faVars, ixVars, vrVars, lpVars, mainVars, lfwVars, stVars, chVars, ffVars>>

\* xml_rle_write of the finished RLE.
XmlRleWrite ==
    /\ rpc = "create"
    /\ consumed = Len(values)
    /\ LET w == xml_rle_write(rle, hex_output)
       IN  /\ block' = w.elem
           /\ rpc' = IF w.exc = "none" THEN "written" ELSE "write_failed"
    /\ UNCHANGED <<values, hex_output, consumed, rle, tampered, rle_read>>
    /\ UNCHANGED <<faVars, ixVars, vrVars, lpVars, mainVars, lfwVars, stVars, chVars, ffVars>>

\* The texts an integer attribute may hold for the value n.
IntTexts(n) == {FormatDec(n), FormatHex(n)}

\* A hand edit of the written block: another 'count', another 'rle_len', or
\* the last RLE child removed.
TamperElement ==
    /\ rpc = "written"
    /\ ~tampered
    /\ \/ \E n \in 0..(MaxLen + 1) : \E t \in IntTexts(n) :
              /\ t # block.count
              /\ block' = [block EXCEPT !.count = t]
       \/ \E n \in 0..(MaxLen + 1) : \E t \in IntTexts(n) :
              /\ t # block.rle_len
              /\ block' = [block EXCEPT !.rle_len = t]
       \/ /\ Len(block.items) > 0
          /\ block' = [block EXCEPT
                            !.items = SubSeq(block.items, 1, Len(block.items) - 1)]
    /\ tampered' = TRUE
    /\ UNCHANGED <<values, hex_output, consumed, rle, rle_read, rpc>>
    /\ UNCHANGED <<faVars, ixVars, vrVars, lpVars, mainVars, lfwVars, stVars, chVars, ffVars>>

\* xml_rle_read of the block.
XmlRleRead ==
    /\ rpc = "written"
    /\ rle_read' = xml_rle_read(block)
    /\ rpc' = "read"
    /\ UNCHANGED <<values, hex_output, consumed, rle, block, tampered>>
    /\ UNCHANGED <<faVars, ixVars, vrVars, lpVars, mainVars, lfwVars, stVars, chVars, ffVars>>

NextRle == CreateRleAdd \/ XmlRleWrite \/ TamperElement \/ XmlRleRead

SpecRle == InitRle /\ [][NextRle]_vars

(***************************************************************************)
(* Claims about the RLE engine and the serialised RLE block (SpecRle).     *)
(***************************************************************************)
SeqNumEq(a, b) == Len(a) = Len(b) /\ \A i \in 1..Len(a) : NumEq(a[i], b[i])

SameItems(a, b) ==
    /\ Len(a) = Len(b)
    /\ \A i \in 1..Len(a) : /\ NumEq(a[i].datum, b[i].datum)
                            /\ NumEq(a[i].stride, b[i].stride)
                            /\ a[i].repeat = b[i].repeat

IsFloatInput == \E i \in 1..Len(values) : values[i].f

CreateDone == rpc = "create" /\ consumed = Len(values)

\* C2: expanding the RLE created from a sequence of integers or of floats
\* (empty, of one element, or mixing regular and irregular runs) yields
\* exactly that sequence, in the same order and with the same length.
C2_RleRoundTrip == CreateDone => SeqNumEq(RLEValues(rle), values)

\* C3: an RLE over integers of any sign written in decimal or hexadecimal,
\* or over floats written in decimal, is read back by xml_rle_read from the
\* element xml_rle_write wrote, with the same (datum, stride, repeat) items.
C3_BlockRoundTrip ==
    (rpc = "read" /\ ~tampered /\ (~IsFloatInput \/ ~hex_output))
        => (rle_read.exc = "none" /\ SameItems(rle_read.val, rle))

\* The index in the input of the first value of item k.
ItemStart(r, k) == num_values(SubSeq(r, 1, k - 1))

\* The difference between input value i + 1 and input value i.
InputStep(i) == NumSub(values[i + 1], values[i])

RECURSIVE DeclaredValues(_)
\* The sum of (repeat + 1) over the RLE children of a block, as declared.
DeclaredValues(items) ==
    IF Len(items) = 0 THEN 0
    ELSE xml_integer_attribute_read(items[1].repeat).val + 1
         + DeclaredValues(Tail(items))

\* The block's declared counts disagree with its RLE children.
BlockMismatch(b) ==
    \/ xml_integer_attribute_read(b.count).val # DeclaredValues(b.items)
    \/ xml_integer_attribute_read(b.rle_len).val # Len(b.items)

IsCountMismatch(exc) ==
    exc \in {"ExceptionIndexXMLRead(count)", "ExceptionIndexXMLRead(rle_len)"}

\* C5: xml_rle_read fails with the read error whenever the declared 'count'
\* differs from the sum of (repeat + 1) over the RLE children or the declared
\* 'rle_len' differs from the number of RLE children, and returns an RLE only
\* when both agree; a valid block whose 'count' alone was changed is not read.
C5_CountCheck ==
    rpc = "read" =>
        /\ BlockMismatch(block) => IsCountMismatch(rle_read.exc)
        /\ rle_read.exc = "none" => ~BlockMismatch(block)

(***************************************************************************)
(* Byte strings, object names and the FrameArray element.                  *)
(* A Python bytes value is [b |-> text]; a str is the text itself, so a    *)
(* str never equals a bytes value.  A list of elements matching an XPath   *)
(* is a sequence of elements.                                              *)
(***************************************************************************)
\* bytes.decode('ascii')
decode_ascii(bytes_value) == bytes_value.b

\* str.encode('ascii')
encode_ascii(text) == [b |-> text]

\* A Python int and a Python str where either may stand: an int never
\* equals a str, whatever the str spells.
IntValue(n) == [t |-> "int", v |-> n]

StrValue(text) == [t |-> "str", v |-> text]

\* f'{x}' of an int or a str.
FormatValue(x) == IF x.t = "int" THEN FormatDec(x.v) ELSE x.v

\* x == y
ValueEq(x, y) == x.t = y.t /\ x.v = y.v

\* RepCode.ObjectName: a named tuple that keeps what it is given.
ObjectName(O, C, I) == [O |-> O, C |-> C, I |-> I]

\* Equality of two object names: structural, field by field.
ObjectNameEq(a, b) == ValueEq(a.O, b.O) /\ ValueEq(a.C, b.C) /\ a.I = b.I

\* IndexXML.xml_object_name_attributes
xml_object_name_attributes(object_name) ==
    [O |-> FormatValue(object_name.O),
     C |-> FormatValue(object_name.C),
     I |-> decode_ascii(object_name.I)]

\* IndexXML.xml_object_name: O and C are the attribute texts as they are.
xml_object_name(node) ==
    ObjectName(StrValue(node.O), StrValue(node.C), encode_ascii(node.I))

\* xml_single_element taking the first of the elements there are.
xml_single_element_First(elems) ==
    IF Len(elems) < 1
    THEN [exc |-> "ExceptionIndexXMLRead(xpath)", val |-> <<>>]
    ELSE [exc |-> "none", val |-> elems[1]]

\* IndexXML.xml_single_element, applied to the elements matching the XPath.
xml_single_element(elems) ==
    IF Len(elems) # 1
    THEN [exc |-> "ExceptionIndexXMLRead(xpath)", val |-> <<>>]
    ELSE [exc |-> "none", val |-> elems[1]]

\* IndexXML.frame_channel_to_XML
frame_channel_to_XML(channel) ==
    [O          |-> FormatValue(channel.ident.O),
     C          |-> FormatValue(channel.ident.C),
     I          |-> decode_ascii(channel.ident.I),
     long_name  |-> decode_ascii(channel.long_name),
     rep_code   |-> FormatDec(channel.rep_code),
     units      |-> decode_ascii(channel.units),
     dimensions |-> [i \in 1..Len(channel.dimensions) |-> FormatDec(channel.dimensions[i])],
     count      |-> FormatDec(channel.count)]

\* The RLE block of a sequence of values: Rle.create_rle, then xml_rle_write.
RleBlock(vs, hex) == xml_rle_write(create_rle(vs), hex)

\* One column of a side-table.
FrameNumberColumn(iflr_seq) ==
    [k \in 1..Len(iflr_seq) |-> PyIntNum(iflr_seq[k].frame_number)]

LrshColumn(iflr_seq) ==
    [k \in 1..Len(iflr_seq) |-> PyIntNum(iflr_seq[k].lrsh_position)]

XaxisColumn(iflr_seq) == [k \in 1..Len(iflr_seq) |-> iflr_seq[k].x_axis]

FrameArrayElement(frame_array, ident_attrs, count, frames, lrsh, xaxis) ==
    IF Len(frame_array.channels) = 0
    THEN [exc |-> "IndexError", elem |-> <<>>]
    ELSE IF frames.exc # "none" \/ lrsh.exc # "none" \/ xaxis.exc # "none"
    THEN [exc |-> "ValueError", elem |-> <<>>]
    ELSE [exc |-> "none",
          elem |-> [O |-> ident_attrs.O,
                    C |-> ident_attrs.C,
                    I |-> ident_attrs.I,
                    description |-> decode_ascii(frame_array.description),
                    x_axis  |-> decode_ascii(frame_array.channels[1].ident.I),
                    x_units |-> decode_ascii(frame_array.channels[1].units),
                    Channels |-> [i \in 1..Len(frame_array.channels) |->
                                     frame_channel_to_XML(frame_array.channels[i])],
                    IFLR |-> <<[count        |-> FormatDec(count),
                                FrameNumbers |-> <<frames.elem>>,
                                LRSH         |-> <<lrsh.elem>>,
                                Xaxis        |-> <<xaxis.elem>>]>>]]

\* IndexXML.frame_array_to_XML (and its copy in LogPassXML): the attributes
\* of the Frame Array, its channels, and an IFLR element with the entry count
\* and the three RLE blocks of the side-table: frame numbers in decimal, LRSH
\* positions in hexadecimal, X axis values in decimal.
frame_array_to_XML(frame_array, iflr_seq) ==
    FrameArrayElement(frame_array, xml_object_name_attributes(frame_array.ident),
                      Len(iflr_seq),
                      RleBlock(FrameNumberColumn(iflr_seq), FALSE),
                      RleBlock(LrshColumn(iflr_seq), TRUE),
                      RleBlock(XaxisColumn(iflr_seq), FALSE))

\* zip() of three sequences: as long as the shortest.
Zip3(a, b, c) ==
    [k \in 1..Min(Len(a), Min(Len(b), Len(c))) |-> <<a[k], b[k], c[k]>>]

\* The exception of the first step that failed, "none" when none did.
FirstExc(steps) ==
    IF \A i \in 1..Len(steps) : steps[i].exc = "none" THEN "none"
    ELSE steps[CHOOSE i \in 1..Len(steps) :
                  /\ steps[i].exc # "none"
                  /\ \A j \in 1..(i - 1) : steps[j].exc = "none"].exc

\* xml_rle_read(xml_single_element(iflr_node, xpath))
ReadBlockOf(e) ==
    IF e.exc # "none" THEN [exc |-> e.exc, val |-> <<>>] ELSE xml_rle_read(e.val)

ReadSingleBlock(elems) == ReadBlockOf(xml_single_element(elems))

\* The length check of int(count) against the three expanded counts, then
\* the zip in the order (LRSH, FrameNumbers, Xaxis).
CheckIflrCounts(exc, count, rle_lrsh, rle_frames, rle_xaxis) ==
    IF exc # "none" THEN [exc |-> exc, val |-> <<>>]
    ELSE IF Cardinality({count.val, num_values(rle_lrsh.val),
                         num_values(rle_frames.val), num_values(rle_xaxis.val)}) # 1
    THEN [exc |-> "ExceptionFrameArrayInit", val |-> <<>>]
    ELSE [exc |-> "none",
          val |-> Zip3(RLEValues(rle_lrsh.val), RLEValues(rle_frames.val),
                       RLEValues(rle_xaxis.val))]

IflrSteps(steps) ==
    CheckIflrCounts(FirstExc(steps), steps[4], steps[1], steps[2], steps[3])

\* The LRSH, FrameNumbers and Xaxis blocks of the IFLR element read in that
\* order, then int(count).
ReadIflrNode(iflr_node) ==
    IflrSteps(<<ReadSingleBlock(iflr_node.LRSH), ReadSingleBlock(iflr_node.FrameNumbers),
                ReadSingleBlock(iflr_node.Xaxis), PyInt(iflr_node.count, 10)>>)

IflrOf(iflr) ==
    IF iflr.exc # "none" THEN [exc |-> iflr.exc, val |-> <<>>] ELSE ReadIflrNode(iflr.val)

\* The body shared by IndexXML.iflr_data_from_xml and
\* LogPassXML.frame_array_from_XML: the single IFLR element, then its blocks.
ReadIflrBlocks(frame_array_node) == IflrOf(xml_single_element(frame_array_node.IFLR))

\* IndexXML.iflr_data_from_xml: each zipped tuple is handed on positionally.
iflr_data_from_xml(frame_array_node) == ReadIflrBlocks(frame_array_node)

\* LogPassXML.IFLRData: the named tuple (frame_number, lrsh_position,
\* x_axis) filled positionally.
IFLRData(v) == [frame_number |-> v[1], lrsh_position |-> v[2], x_axis |-> v[3]]

\* LogPassXML.frame_array_from_XML: the side-table it returns.
AsIFLRData(r) ==
    IF r.exc # "none" THEN r
    ELSE [exc |-> "none", val |-> [k \in 1..Len(r.val) |-> IFLRData(r.val[k])]]

LogPassXML_frame_array_from_XML(frame_array_node) ==
    AsIFLRData(ReadIflrBlocks(frame_array_node))

\* HTML._write_frame_array_in_html, one turn of its loop over the frames:
\* the entry is destructured as (iflr_frame_number, lrsh_position, x_axis)
\* and lrsh_position is what the record is looked up with.
HtmlDestructure(entry, k) ==
    [frame             |-> k,
     iflr_frame_number |-> entry[1],
     lrsh_position     |-> entry[2],
     x_axis            |-> entry[3],
     visible_record_prior_arg |-> entry[2]]

(***************************************************************************)
(* The Frame Array scenario: a side-table in memory is written as a        *)
(* FrameArray element, the element may be edited by hand, and it is read   *)
(* by both readers; the frame reader then takes entries of the table.      *)
(***************************************************************************)
\* Most entries of a side-table.
MaxFrames == 2

FrameNumberValues == {1, 2}

\* LRSH positions, 0x54 onwards, one record every 0x30 bytes.
LrshValues == {84 + 48 * i : i \in 0..MaxFrames}

XaxisValues == {PyFloat(5, -1), PyIntNum(2), PyFloat(1, -5)}

\* Side-tables as a scan of the file builds them: positions ascend.
SideTables ==
    {t \in SeqsUpTo([frame_number : FrameNumberValues, lrsh_position : LrshValues,
                     x_axis : XaxisValues], MaxFrames) :
        \A k \in 1..(Len(t) - 1) : t[k].lrsh_position < t[k + 1].lrsh_position}

FrameChannelX ==
    [ident |-> ObjectName(IntValue(11), IntValue(0), encode_ascii("DEPT")), long_name |-> encode_ascii("Depth"),
     rep_code |-> 2, units |-> encode_ascii("m"), dimensions |-> <<1>>, count |-> 1]

FrameArrayA ==
    [ident |-> ObjectName(IntValue(11), IntValue(0), encode_ascii("0B")), description |-> encode_ascii(""),
     channels |-> <<FrameChannelX>>]

InitFa ==
    /\ RleIdle
    /\ IxIdle
    /\ iflrs \in SideTables
    /\ fa_element = <<>>
    /\ fa_edited = {}
    /\ iflr_read = Unread
    /\ lp_read = Unread
    /\ html_frame = NoFrame
    /\ fpc = "memory"
    /\ VrIdle
    /\ LpIdle
    /\ MainIdle
    /\ LfwIdle
    /\ StIdle
    /\ ChIdle
    /\ FfIdle

\* frame_array_to_XML of the Frame Array and its side-table.
FrameArrayToXml ==
    /\ fpc = "memory"
    /\ LET w == frame_array_to_XML(FrameArrayA, iflrs)
       IN  /\ fa_element' = w.elem
           /\ fpc' = IF w.exc = "none" THEN "written" ELSE "write_failed"
    /\ UNCHANGED <<iflrs, fa_edited, iflr_read, lp_read, html_frame>>
    /\ UNCHANGED <<rleVars, ixVars, vrVars, lpVars, mainVars, lfwVars, stVars, chVars, ffVars>>

NotYetRead == iflr_read = Unread /\ lp_read = Unread

\* A hand edit: another IFLR 'count', in either notation.
EditIflrCount ==
    /\ fpc = "written" /\ NotYetRead /\ "count" \notin fa_edited
    /\ Len(fa_element.IFLR) = 1
    /\ \E n \in 0..(MaxFrames + 1) : \E t \in IntTexts(n) :
          /\ t # fa_element.IFLR[1].count
          /\ fa_element' = [fa_element EXCEPT !.IFLR[1].count = t]
    /\ fa_edited' = fa_edited \cup {"count"}
    /\ UNCHANGED <<iflrs, iflr_read, lp_read, html_frame, fpc>>
    /\ UNCHANGED <<rleVars, ixVars, vrVars, lpVars, mainVars, lfwVars, stVars, chVars, ffVars>>

\* A hand edit: the FrameNumbers block replaced by the block of the frame
\* numbers without the last one (a shorter but well-formed block), or left
\* with its last RLE child removed and its 'count' as it was.
EditFrameNumbers ==
    /\ fpc = "written" /\ NotYetRead /\ "FrameNumbers" \notin fa_edited
    /\ Len(iflrs) > 0
    /\ \/ fa_element' = [fa_element EXCEPT !.IFLR[1].FrameNumbers =
              <<RleBlock(FrameNumberColumn(SubSeq(iflrs, 1, Len(iflrs) - 1)),
                         FALSE).elem>>]
       \/ LET b == fa_element.IFLR[1].FrameNumbers[1]
          IN  fa_element' = [fa_element EXCEPT !.IFLR[1].FrameNumbers =
                  <<[b EXCEPT !.items = SubSeq(b.items, 1, Len(b.items) - 1)]>>]
    /\ fa_edited' = fa_edited \cup {"FrameNumbers"}
    /\ UNCHANGED <<iflrs, iflr_read, lp_read, html_frame, fpc>>
    /\ UNCHANGED <<rleVars, ixVars, vrVars, lpVars, mainVars, lfwVars, stVars, chVars, ffVars>>

\* A hand edit: the Xaxis element removed.
EditRemoveXaxis ==
    /\ fpc = "written" /\ NotYetRead /\ "Xaxis" \notin fa_edited
    /\ fa_element' = [fa_element EXCEPT !.IFLR[1].Xaxis = <<>>]
    /\ fa_edited' = fa_edited \cup {"Xaxis"}
    /\ UNCHANGED <<iflrs, iflr_read, lp_read, html_frame, fpc>>
    /\ UNCHANGED <<rleVars, ixVars, vrVars, lpVars, mainVars, lfwVars, stVars, chVars, ffVars>>

\* IndexXML.iflr_data_from_xml of the element; read_logical_file_from_xml
\* keeps list() of what it returns.
IflrDataFromXml ==
    /\ fpc = "written" /\ iflr_read = Unread
    /\ iflr_read' = iflr_data_from_xml(fa_element)
    /\ UNCHANGED <<iflrs, fa_element, fa_edited, lp_read, html_frame, fpc>>
    /\ UNCHANGED <<rleVars, ixVars, vrVars, lpVars, mainVars, lfwVars, stVars, chVars, ffVars>>

\* LogPassXML.frame_array_from_XML of the element.
LogPassFrameArrayFromXml ==
    /\ fpc = "written" /\ lp_read = Unread
    /\ lp_read' = LogPassXML_frame_array_from_XML(fa_element)
    /\ UNCHANGED <<iflrs, fa_element, fa_edited, iflr_read, html_frame, fpc>>
    /\ UNCHANGED <<rleVars, ixVars, vrVars, lpVars, mainVars, lfwVars, stVars, chVars, ffVars>>

\* One turn of the frame reader's loop over the table read by IndexXML.
HtmlReadFrame ==
    /\ fpc = "written" /\ iflr_read.exc = "none"
    /\ \E k \in 1..Len(iflr_read.val) :
          /\ k # html_frame.frame
          /\ html_frame' = HtmlDestructure(iflr_read.val[k], k)
    /\ UNCHANGED <<iflrs, fa_element, fa_edited, iflr_read, lp_read, fpc>>
    /\ UNCHANGED <<rleVars, ixVars, vrVars, lpVars, mainVars, lfwVars, stVars, chVars, ffVars>>

NextFa ==
    \/ FrameArrayToXml
    \/ EditIflrCount
    \/ EditFrameNumbers
    \/ EditRemoveXaxis
    \/ IflrDataFromXml
    \/ LogPassFrameArrayFromXml
    \/ HtmlReadFrame

SpecFa == InitFa /\ [][NextFa]_vars

(***************************************************************************)
(* Claims about reading a FrameArray element (SpecFa).                     *)
(***************************************************************************)
\* The element still has its single IFLR element and one block of each kind.
HasIflrBlocks ==
    /\ fpc = "written"
    /\ Len(fa_element.IFLR) = 1
    /\ Len(fa_element.IFLR[1].LRSH) = 1
    /\ Len(fa_element.IFLR[1].FrameNumbers) = 1
    /\ Len(fa_element.IFLR[1].Xaxis) = 1

\* A block xml_rle_read accepts: its children convert and its decimal
\* 'count' and 'rle_len' agree with them.
BlockWellFormed(b) == xml_rle_read(b).exc = "none"

\* The values a block's RLE children stand for.
ExpandBlock(b) == RLEValues(ReadItems(ConvertItems(b.items)))

\* The four counts: the IFLR element's declared 'count' and the expanded
\* value counts of FrameNumbers, LRSH and Xaxis.
FourCounts ==
    {xml_integer_attribute_read(fa_element.IFLR[1].count).val,
     Len(ExpandBlock(fa_element.IFLR[1].FrameNumbers[1])),
     Len(ExpandBlock(fa_element.IFLR[1].LRSH[1])),
     Len(ExpandBlock(fa_element.IFLR[1].Xaxis[1]))}

LengthChecked(r) ==
    r # Unread =>
        /\ Cardinality(FourCounts) # 1 => r.exc = "ExceptionFrameArrayInit"
        /\ r.exc = "none" => (Cardinality(FourCounts) = 1 /\ FourCounts = {Len(r.val)})

\* C6: reading a FrameArray element whose three blocks are well formed fails
\* with the mismatched-lengths error unless the IFLR element's declared
\* 'count' and the expanded value counts of FrameNumbers, LRSH and Xaxis are
\* all four equal, and a side-table is returned only when they are, with
\* that many entries; for both readers.
C6_LengthCheck ==
    (/\ HasIflrBlocks
     /\ BlockWellFormed(fa_element.IFLR[1].FrameNumbers[1])
     /\ BlockWellFormed(fa_element.IFLR[1].LRSH[1])
     /\ BlockWellFormed(fa_element.IFLR[1].Xaxis[1]))
        => (LengthChecked(iflr_read) /\ LengthChecked(lp_read))

\* C7: in the side-table read from a FrameArray element, entry k has the
\* k-th expanded FrameNumbers value as frame_number, the k-th expanded LRSH
\* value as lrsh_position and the k-th expanded Xaxis value as x_axis, both
\* in the named entries of LogPassXML and as the frame reader destructures
\* the entries of IndexXML.
C7_TripleMapping ==
    HasIflrBlocks =>
        /\ lp_read.exc = "none" =>
              \A k \in 1..Len(lp_read.val) :
                 /\ NumEq(lp_read.val[k].frame_number,
                          ExpandBlock(fa_element.IFLR[1].FrameNumbers[1])[k])
                 /\ NumEq(lp_read.val[k].lrsh_position,
                          ExpandBlock(fa_element.IFLR[1].LRSH[1])[k])
                 /\ NumEq(lp_read.val[k].x_axis,
                          ExpandBlock(fa_element.IFLR[1].Xaxis[1])[k])
        /\ html_frame.frame # 0 =>
                 /\ NumEq(html_frame.iflr_frame_number,
                          ExpandBlock(fa_element.IFLR[1].FrameNumbers[1])[html_frame.frame])
                 /\ NumEq(html_frame.lrsh_position,
                          ExpandBlock(fa_element.IFLR[1].LRSH[1])[html_frame.frame])
                 /\ NumEq(html_frame.visible_record_prior_arg,
                          ExpandBlock(fa_element.IFLR[1].LRSH[1])[html_frame.frame])
                 /\ NumEq(html_frame.x_axis,
                          ExpandBlock(fa_element.IFLR[1].Xaxis[1])[html_frame.frame])

(***************************************************************************)
(* Paths and the file system.  A path is [abs, parts]: whether it starts   *)
(* at the root, and its components.                                        *)
(***************************************************************************)
Path(abs, parts) == [abs |-> abs, parts |-> parts]

\* os.path.join(a, p): an absolute p discards a.
os_path_join(a, p) == IF p.abs THEN p ELSE Path(a.abs, a.parts \o p.parts)

\* The working directory of the process.
Cwd == <<"arch">>

\* Where the binary file was when it was indexed.
BinaryPath == <<"arch", "data", "a.dlis">>

\* The components of a path from the root.
AbsParts(p) == IF p.abs THEN p.parts ELSE Cwd \o p.parts

\* os.path.isfile(p), kind being what is found at BinaryPath.
os_path_isfile(p, kind) == AbsParts(p) = BinaryPath /\ kind # "absent"

\* bin_file_type.binary_file_type_from_path(p): the type the file's first
\* bytes show.
binary_file_type_from_path(p, kind) ==
    IF os_path_isfile(p, kind) THEN kind ELSE ""

\* os.path.getsize of the binary file.
BinarySize == 32768

(***************************************************************************)
(* The Logical Index in memory.  A dict keyed by object names is a         *)
(* sequence of [key, val] in insertion order.                              *)
(***************************************************************************)
Position(vr, lrsh) == [vr_position |-> vr, lrsh_position |-> lrsh]

\* An EFLR: its type code, its set, its objects and, for a FRAME record, the
\* Frame Arrays it defines.
Eflr(lr_type, set_type, objects, frame_arrays) ==
    [lr_type |-> lr_type,
     set |-> [type |-> encode_ascii(set_type), name |-> encode_ascii("")],
     objects |-> objects,
     frame_arrays |-> frame_arrays]

\* key in map
MapHas(map, key) == \E i \in 1..Len(map) : ObjectNameEq(map[i].key, key)

\* map[key]
MapGet(map, key) == map[CHOOSE i \in 1..Len(map) : ObjectNameEq(map[i].key, key)].val

NoLogPass == [present |-> FALSE, frame_arrays |-> <<>>]

\* LogicalRecord.Types.is_public: the record types the standard defines.
is_public(lr_type) == lr_type \in 0..11

(***************************************************************************)
(* The write path of IndexXML.                                             *)
(***************************************************************************)
\* IndexXML._write_xml_eflr_object: the Object element of an EFLR object.
write_xml_eflr_object(obj) == xml_object_name_attributes(obj.name)

\* The EFLR element with the objects of every record written.
EflrElement_NoFilter(position, eflr, is_private) ==
    [vr_position   |-> FormatHex(position.vr_position),
     lrsh_position |-> FormatHex(position.lrsh_position),
     lr_type       |-> FormatDec(eflr.lr_type),
     set_type      |-> decode_ascii(eflr.set.type),
     set_name      |-> decode_ascii(eflr.set.name),
     object_count  |-> FormatDec(Len(eflr.objects)),
     Object        |-> [i \in 1..Len(eflr.objects) |->
                           write_xml_eflr_object(eflr.objects[i])]]

\* The EFLR element of write_logical_file_to_xml: the two offsets in
\* hexadecimal, and the objects when private or when the type is public.
EflrElement(position, eflr, is_private) ==
    [vr_position   |-> FormatHex(position.vr_position),
     lrsh_position |-> FormatHex(position.lrsh_position),
     lr_type       |-> FormatDec(eflr.lr_type),
     set_type      |-> decode_ascii(eflr.set.type),
     set_name      |-> decode_ascii(eflr.set.name),
     object_count  |-> FormatDec(Len(eflr.objects)),
     Object        |-> IF is_private \/ is_public(eflr.lr_type)
                       THEN [i \in 1..Len(eflr.objects) |->
                                write_xml_eflr_object(eflr.objects[i])]
                       ELSE <<>>]

\* A Frame Array without its side-table written as one without frames.
LogPassFrameArray_SkipMissing(frame_array, iflr_data_map) ==
    IF ~MapHas(iflr_data_map, frame_array.ident)
    THEN frame_array_to_XML(frame_array, <<>>)
    ELSE frame_array_to_XML(frame_array, MapGet(iflr_data_map, frame_array.ident))

\* One Frame Array of log_pass_to_XML: its side-table must be in the map.
LogPassFrameArray(frame_array, iflr_data_map) ==
    IF ~MapHas(iflr_data_map, frame_array.ident)
    THEN [exc |-> "ExceptionLogPassXML", elem |-> <<>>]
    ELSE frame_array_to_XML(frame_array, MapGet(iflr_data_map, frame_array.ident))

\* How many turns of the loop ended without an exception: all of them, or
\* those before the first that raised.
WrittenBefore(written) ==
    IF FirstExc(written) = "none" THEN Len(written)
    ELSE (CHOOSE i \in 1..Len(written) :
             written[i].exc # "none" /\ \A j \in 1..(i - 1) : written[j].exc = "none") - 1

\* The LogPass element, and in stream the FrameArray elements that went to
\* the XML stream before the loop ended.
LogPassElement(count, written) ==
    IF FirstExc(written) # "none"
    THEN [exc |-> FirstExc(written), elems |-> <<>>,
          stream |-> [i \in 1..WrittenBefore(written) |-> written[i].elem]]
    ELSE [exc |-> "none",
          elems |-> <<[count |-> FormatDec(count),
                       FrameArray |-> [i \in 1..Len(written) |-> written[i].elem]]>>,
          stream |-> [i \in 1..Len(written) |-> written[i].elem]]

\* IndexXML.log_pass_to_XML
log_pass_to_XML(log_pass, iflr_data_map) ==
    LogPassElement(Len(log_pass.frame_arrays),
                   [i \in 1..Len(log_pass.frame_arrays) |->
                       LogPassFrameArray(log_pass.frame_arrays[i], iflr_data_map)])

LogicalFileElement(logical_file_index, logical_file, is_private, lp) ==
    IF lp.exc # "none" THEN [exc |-> lp.exc, elem |-> <<>>]
    ELSE [exc |-> "none",
          elem |-> [has_log_pass |-> IF logical_file.log_pass.present THEN "True"
                                     ELSE "False",
                    index   |-> FormatDec(logical_file_index),
                    EFLR    |-> [i \in 1..Len(logical_file.eflrs) |->
                                    EflrElement(logical_file.eflrs[i].position,
                                                logical_file.eflrs[i].eflr, is_private)],
                    LogPass |-> lp.elems]]

\* IndexXML.write_logical_file_to_xml
write_logical_file_to_xml(logical_file_index, logical_file, is_private) ==
    LogicalFileElement(logical_file_index, logical_file, is_private,
                       IF logical_file.log_pass.present
                       THEN log_pass_to_XML(logical_file.log_pass,
                                            logical_file.iflr_position_map)
                       ELSE [exc |-> "none", elems |-> <<>>])

\* The StorageUnitLabel element of write_logical_file_sequence_to_xml.
StorageUnitLabelElement(sul) ==
    [sequence_number        |-> FormatDec(sul.storage_unit_sequence_number),
     dlis_version           |-> decode_ascii(sul.dlis_version),
     storage_unit_structure |-> decode_ascii(sul.storage_unit_structure),
     maximum_record_length  |-> FormatDec(sul.maximum_record_length),
     storage_set_identifier |-> decode_ascii(sul.storage_set_identifier)]

XML_SCHEMA_VERSION == "0.1.0"

IndexDocument(lfs, written, visible_records) ==
    IF FirstExc(written) # "none" THEN [exc |-> FirstExc(written), elem |-> <<>>]
    ELSE IF visible_records.exc # "none" THEN [exc |-> visible_records.exc, elem |-> <<>>]
    ELSE [exc |-> "none",
          elem |-> [tag              |-> "RP66V1FileIndex",
                    path             |-> lfs.id,
                    size             |-> FormatDec(BinarySize),
                    schema_version   |-> XML_SCHEMA_VERSION,
                    creator          |-> "TotalDepth.RP66V1.IndexXML",
                    StorageUnitLabel |-> <<StorageUnitLabelElement(lfs.storage_unit_label)>>,
                    LogicalFiles     |-> <<[count |-> FormatDec(Len(lfs.logical_files)),
                                            LogicalFile |-> [i \in 1..Len(written) |->
                                                                written[i].elem]]>>,
                    VisibleRecords   |-> <<visible_records.elem>>]]

\* IndexXML.write_logical_file_sequence_to_xml: the root element with the
\* file's identity, the Storage Unit Label, every Logical File under its
\* 0-based index, and the Visible Record positions as an RLE block in
\* hexadecimal.  The size is taken from the binary file, which must exist.
write_logical_file_sequence_to_xml(lfs, is_private, kind) ==
    IF ~os_path_isfile(lfs.id, kind) THEN [exc |-> "FileNotFoundError", elem |-> <<>>]
    ELSE IndexDocument(lfs,
                       [i \in 1..Len(lfs.logical_files) |->
                           write_logical_file_to_xml(i - 1, lfs.logical_files[i],
                                                     is_private)],
                       RleBlock([i \in 1..Len(lfs.visible_record_positions) |->
                                    PyIntNum(lfs.visible_record_positions[i])], TRUE))

(***************************************************************************)
(* The read path of IndexXML.                                              *)
(***************************************************************************)
\* File.FileRead.get_file_logical_data(vr_position, lrsh_position): the
\* record of the binary file at that position, an error when there is none.
get_file_logical_data(records, vr, lrsh) ==
    IF \E i \in 1..Len(records) : records[i].position = Position(vr, lrsh)
    THEN [exc |-> "none",
          val |-> records[CHOOSE i \in 1..Len(records) :
                              records[i].position = Position(vr, lrsh)]]
    ELSE [exc |-> "ExceptionFileRead", val |-> <<>>]

\* The records of the binary file a Logical Index was made from.
RECURSIVE FileRecords(_)
FileRecords(logical_files) ==
    IF Len(logical_files) = 0 THEN <<>>
    ELSE logical_files[1].eflrs \o FileRecords(Tail(logical_files))

\* The ordering rule without its last test.
EflrOrderingExc_NoOriginCheck(eflr_nodes) ==
    IF Len(eflr_nodes) < 2 THEN "ExceptionRP66V1IndexXMLRead(eflr_count)"
    ELSE IF eflr_nodes[1].set_type # "FILE-HEADER"
    THEN "ExceptionRP66V1IndexXMLRead(first_eflr)"
    ELSE "none"

\* The ordering rule of read_logical_file_from_xml: at least two EFLRs, the
\* first a FILE-HEADER, the second an ORIGIN.
EflrOrderingExc(eflr_nodes) ==
    IF Len(eflr_nodes) < 2 THEN "ExceptionRP66V1IndexXMLRead(eflr_count)"
    ELSE IF eflr_nodes[1].set_type # "FILE-HEADER"
    THEN "ExceptionRP66V1IndexXMLRead(first_eflr)"
    ELSE IF eflr_nodes[2].set_type # "ORIGIN"
    THEN "ExceptionRP66V1IndexXMLRead(second_eflr)"
    ELSE "none"

\* The record of one EFLR element: both offsets are read with
\* xml_integer_attribute_read, then the record is taken from the file.
EflrRecord(records, vr, lrsh) ==
    IF vr.exc # "none" \/ lrsh.exc # "none"
    THEN [exc |-> "ValueError", called |-> FALSE, val |-> <<>>,
          call |-> [op |-> "get_file_logical_data", vr_position |-> 0, lrsh_position |-> 0]]
    ELSE [exc    |-> get_file_logical_data(records, vr.val, lrsh.val).exc,
          called |-> TRUE,
          val    |-> get_file_logical_data(records, vr.val, lrsh.val).val,
          call   |-> [op |-> "get_file_logical_data",
                      vr_position |-> vr.val, lrsh_position |-> lrsh.val]]

ReadEflrNode(eflr_node, records) ==
    EflrRecord(records, xml_integer_attribute_read(eflr_node.vr_position),
               xml_integer_attribute_read(eflr_node.lrsh_position))

\* How many steps ran: all of them, or up to the first that failed.
StepsRun(steps) ==
    IF FirstExc(steps) = "none" THEN Len(steps)
    ELSE CHOOSE i \in 1..Len(steps) :
            steps[i].exc # "none" /\ \A j \in 1..(i - 1) : steps[j].exc = "none"

\* The calls to the record reader made by the steps that ran.
RECURSIVE CallsOf(_, _)
CallsOf(steps, n) ==
    IF n = 0 THEN <<>>
    ELSE CallsOf(steps, n - 1) \o (IF steps[n].called THEN <<steps[n].call>> ELSE <<>>)

\* The FrameArray elements under every LogPass element of a LogicalFile.
RECURSIVE FrameArrayNodes(_)
FrameArrayNodes(log_pass_nodes) ==
    IF Len(log_pass_nodes) = 0 THEN <<>>
    ELSE log_pass_nodes[1].FrameArray \o FrameArrayNodes(Tail(log_pass_nodes))

\* One turn of the loop over the FrameArray elements: the side-table is read,
\* then the name is looked up among those already stored.
FrameArrayEntry(keys, j, table) ==
    IF table.exc # "none" THEN [exc |-> table.exc, key |-> keys[j], val |-> <<>>]
    ELSE IF \E i \in 1..(j - 1) : ObjectNameEq(keys[i], keys[j])
    THEN [exc |-> "ExceptionRP66V1IndexXMLRead(duplicate)", key |-> keys[j], val |-> <<>>]
    ELSE [exc |-> "none", key |-> keys[j], val |-> table.val]

FrameArrayEntries(nodes, keys) ==
    [j \in 1..Len(nodes) |-> FrameArrayEntry(keys, j, iflr_data_from_xml(nodes[j]))]

ReadFrameArrayNodes(nodes) ==
    FrameArrayEntries(nodes, [j \in 1..Len(nodes) |-> xml_object_name(nodes[j])])

\* LogicalFile.LogicalFile and add_eflr: the records in order, and the Log
\* Pass of the FRAME record when there is one.
LogPassOf(eflrs) ==
    IF \E i \in 1..Len(eflrs) : Len(eflrs[i].eflr.frame_arrays) > 0
    THEN [present |-> TRUE,
          frame_arrays |-> eflrs[CHOOSE i \in 1..Len(eflrs) :
                                    Len(eflrs[i].eflr.frame_arrays) > 0].eflr.frame_arrays]
    ELSE NoLogPass

LogicalFileOf(eflr_steps, fa_steps) ==
    [eflrs |-> [i \in 1..Len(eflr_steps) |-> eflr_steps[i].val],
     log_pass |-> LogPassOf([i \in 1..Len(eflr_steps) |-> eflr_steps[i].val]),
     iflr_position_map |-> [j \in 1..Len(fa_steps) |->
                               [key |-> fa_steps[j].key, val |-> fa_steps[j].val]]]

\* The read of a LogicalFile element that fetches its first EFLR before it
\* looks at the ordering.
ReadLogicalFileSteps_FetchFirst(ordering, eflr_steps, fa_steps) ==
    IF ordering # "none"
    THEN [exc |-> ordering, val |-> <<>>, calls |-> CallsOf(eflr_steps, Min(1, Len(eflr_steps)))]
    ELSE IF FirstExc(eflr_steps) # "none"
    THEN [exc |-> FirstExc(eflr_steps), val |-> <<>>,
          calls |-> CallsOf(eflr_steps, StepsRun(eflr_steps))]
    ELSE IF FirstExc(fa_steps) # "none"
    THEN [exc |-> FirstExc(fa_steps), val |-> <<>>,
          calls |-> CallsOf(eflr_steps, Len(eflr_steps))]
    ELSE [exc |-> "none", val |-> LogicalFileOf(eflr_steps, fa_steps),
          calls |-> CallsOf(eflr_steps, Len(eflr_steps))]

ReadLogicalFileSteps(ordering, eflr_steps, fa_steps) ==
    IF ordering # "none" THEN [exc |-> ordering, val |-> <<>>, calls |-> <<>>]
    ELSE IF FirstExc(eflr_steps) # "none"
    THEN [exc |-> FirstExc(eflr_steps), val |-> <<>>,
          calls |-> CallsOf(eflr_steps, StepsRun(eflr_steps))]
    ELSE IF FirstExc(fa_steps) # "none"
    THEN [exc |-> FirstExc(fa_steps), val |-> <<>>,
          calls |-> CallsOf(eflr_steps, Len(eflr_steps))]
    ELSE [exc |-> "none", val |-> LogicalFileOf(eflr_steps, fa_steps),
          calls |-> CallsOf(eflr_steps, Len(eflr_steps))]

\* The read with the first EFLR element taken again by the loop over the
\* later ones.
read_logical_file_from_xml_FirstTwice(logical_file_node, records) ==
    ReadLogicalFileSteps(EflrOrderingExc(logical_file_node.EFLR),
                         [i \in 1..(Len(logical_file_node.EFLR) + 1) |->
                             ReadEflrNode(logical_file_node.EFLR[IF i = 1 THEN 1 ELSE i - 1],
                                          records)],
                         ReadFrameArrayNodes(FrameArrayNodes(logical_file_node.LogPass)))

\* IndexXML.read_logical_file_from_xml: the ordering rule, then every EFLR
\* re-read from the binary file at its declared offsets, then the side-table
\* of every FrameArray element stored under the element's object name.
read_logical_file_from_xml(logical_file_node, records) ==
    ReadLogicalFileSteps(EflrOrderingExc(logical_file_node.EFLR),
                         [i \in 1..Len(logical_file_node.EFLR) |->
                             ReadEflrNode(logical_file_node.EFLR[i], records)],
                         ReadFrameArrayNodes(FrameArrayNodes(logical_file_node.LogPass)))

\* StorageUnitLabel.create_storage_unit_label
create_storage_unit_label(sequence_number, version, record_length, identifier) ==
    [storage_unit_sequence_number |-> sequence_number,
     dlis_version                 |-> version,
     storage_unit_structure       |-> encode_ascii("RECORD"),
     maximum_record_length        |-> record_length,
     storage_set_identifier       |-> identifier]

StorageUnitLabelOf(sul_element, sequence_number, maximum_record_length) ==
    IF encode_ascii(sul_element.dlis_version) # encode_ascii("V1.00")
    THEN [exc |-> "ExceptionIndexXMLRead(dlis_version)", val |-> <<>>]
    ELSE IF sequence_number.exc # "none" THEN [exc |-> "ValueError", val |-> <<>>]
    ELSE IF sequence_number.val <= 0
    THEN [exc |-> "ExceptionIndexXMLRead(sequence_number)", val |-> <<>>]
    ELSE IF maximum_record_length.exc # "none" THEN [exc |-> "ValueError", val |-> <<>>]
    ELSE IF encode_ascii(sul_element.storage_unit_structure) # encode_ascii("RECORD")
    THEN [exc |-> "ExceptionIndexXMLRead(storage_unit_structure)", val |-> <<>>]
    ELSE [exc |-> "none",
          val |-> create_storage_unit_label(sequence_number.val,
                      encode_ascii(sul_element.dlis_version),
                      maximum_record_length.val,
                      encode_ascii(sul_element.storage_set_identifier))]

StorageUnitLabelFrom(e) ==
    IF e.exc # "none" THEN [exc |-> e.exc, val |-> <<>>]
    ELSE StorageUnitLabelOf(e.val, PyInt(e.val.sequence_number, 10),
                            PyInt(e.val.maximum_record_length, 10))

\* IndexXML.read_storage_unit_label_from_xml
read_storage_unit_label_from_xml(root) ==
    StorageUnitLabelFrom(xml_single_element(root.StorageUnitLabel))

(***************************************************************************)
(* The index scenario: a Logical Index in memory, made by a scan of the    *)
(* binary file, is written as a document; the document may be edited by    *)
(* hand and the binary file replaced or removed; the document is then read *)
(* against an archive root.                                                *)
(***************************************************************************)
\* Most Logical Files of an index.
MaxLogicalFiles == 2

\* A Logical File with EFLRs only, one with a Frame Array, and one whose
\* Frame Array has a very small X axis value.
LogicalFileKinds == {"plain", "frames", "tiny_x"}

\* Each Logical File has a Visible Record of its own.
VrPosition(k) == 80 + 8192 * (k - 1)

EflrObject == [name |-> ObjectName(IntValue(2), IntValue(0), encode_ascii("0"))]

EflrAt(vr, offset, lr_type, set_type, frame_arrays) ==
    [position |-> Position(vr, vr + offset),
     eflr     |-> Eflr(lr_type, set_type, <<EflrObject>>, frame_arrays)]

\* FILE-HEADER, ORIGIN and a record of a private type.
PlainEflrs(vr) ==
    <<EflrAt(vr, 4, 0, "FILE-HEADER", <<>>), EflrAt(vr, 128, 1, "ORIGIN", <<>>),
      EflrAt(vr, 256, 12, "440-OP-CORE", <<>>)>>

\* FILE-HEADER, ORIGIN, CHANNEL and a FRAME record defining a Frame Array.
FrameEflrs(vr) ==
    <<EflrAt(vr, 4, 0, "FILE-HEADER", <<>>), EflrAt(vr, 128, 1, "ORIGIN", <<>>),
      EflrAt(vr, 256, 3, "CHANNEL", <<>>), EflrAt(vr, 384, 4, "FRAME", <<FrameArrayA>>)>>

SideTableOf(kind, vr) ==
    IF kind = "tiny_x"
    THEN <<[frame_number |-> 1, lrsh_position |-> vr + 592, x_axis |-> PyFloat(1, -5)]>>
    ELSE <<[frame_number |-> 1, lrsh_position |-> vr + 592, x_axis |-> PyFloat(5, -1)],
           [frame_number |-> 2, lrsh_position |-> vr + 640, x_axis |-> PyFloat(15, -1)]>>

LogicalFileWith(eflrs, iflr_position_map) ==
    [eflrs |-> eflrs, log_pass |-> LogPassOf(eflrs), iflr_position_map |-> iflr_position_map]

\* The k-th Logical File of the binary file, as the scan finds it.
MakeLogicalFile(kind, k) ==
    IF kind = "plain" THEN LogicalFileWith(PlainEflrs(VrPosition(k)), <<>>)
    ELSE LogicalFileWith(FrameEflrs(VrPosition(k)),
                         <<[key |-> FrameArrayA.ident,
                            val |-> SideTableOf(kind, VrPosition(k))]>>)

StorageUnitLabelA ==
    create_storage_unit_label(1, encode_ascii("V1.00"), 8192,
                              encode_ascii("Default Storage Set"))

\* LogicalFile.LogicalIndex after the scan of the file at path id.
MakeLogicalIndex(id, kinds) ==
    [id                       |-> id,
     storage_unit_label       |-> StorageUnitLabelA,
     logical_files            |-> [k \in 1..Len(kinds) |-> MakeLogicalFile(kinds[k], k)],
     visible_record_positions |-> [k \in 1..Len(kinds) |-> VrPosition(k)]]

\* The binary file named relative to the working directory, or from the root.
IndexIds == {Path(FALSE, <<"data", "a.dlis">>), Path(TRUE, BinaryPath)}

LogicalIndexes ==
    {MakeLogicalIndex(id, kinds) : id \in IndexIds,
                                   kinds \in SeqsUpTo(LogicalFileKinds, MaxLogicalFiles)}

\* The empty string, the directory the file was indexed from, and another.
ArchiveRoots == {NoPath, Path(TRUE, <<"arch">>), Path(TRUE, <<"other">>)}

InitIx ==
    /\ RleIdle
    /\ FaIdle
    /\ logical_file_sequence \in LogicalIndexes
    /\ archive_root = NoPath
    /\ binary_kind = "RP66V1"
    /\ doc = <<>>
    /\ doc_edited = {}
    /\ ipc = "memory"
    /\ read_exc = "none"
    /\ logical_index = <<>>
    /\ logical_file_count = 0
    /\ rp66v1file = "closed"
    /\ events = <<>>
    /\ lf_next = 0
    /\ VrIdle
    /\ LpIdle
    /\ MainIdle
    /\ LfwIdle
    /\ StIdle
    /\ ChIdle
    /\ FfIdle

WriteResult(w) ==
    /\ doc' = w.elem
    /\ ipc' = IF w.exc = "none" THEN "written" ELSE "write_failed"

\* write_logical_file_sequence_to_xml(logical_file_sequence, stream, private)
WriteIndex ==
    /\ ipc = "memory"
    /\ \E is_private \in BOOLEAN :
          WriteResult(write_logical_file_sequence_to_xml(logical_file_sequence,
                                                         is_private, binary_kind))
    /\ UNCHANGED <<logical_file_sequence, archive_root, binary_kind, doc_edited, read_exc,
                   logical_index, logical_file_count, rp66v1file, events, lf_next>>
    /\ UNCHANGED <<rleVars, faVars, vrVars, lpVars, mainVars, lfwVars, stVars, chVars, ffVars>>

\* Edits of the document by hand, each made at most once before the read.
CanEdit(name) == ipc = "written" /\ name \notin doc_edited

EditFrame(name) ==
    /\ doc_edited' = doc_edited \cup {name}
    /\ UNCHANGED <<logical_file_sequence, archive_root, ipc, read_exc, logical_index,
                   logical_file_count, rp66v1file, events, lf_next>>
    /\ UNCHANGED <<rleVars, faVars, vrVars, lpVars, mainVars, lfwVars, stVars, chVars, ffVars>>

EditRootTag ==
    /\ CanEdit("tag")
    /\ doc' = [doc EXCEPT !.tag = "LogicalIndex"]
    /\ UNCHANGED binary_kind
    /\ EditFrame("tag")

EditSchemaVersion ==
    /\ CanEdit("schema_version")
    /\ \E version \in {"0.2.0", "0.1"} : doc' = [doc EXCEPT !.schema_version = version]
    /\ UNCHANGED binary_kind
    /\ EditFrame("schema_version")

\* Removing every EFLR, all but the first, the second or the last, and
\* exchanging the first two.
EflrEdits(eflr_nodes) ==
    {<<>>, <<eflr_nodes[1]>>,
     <<eflr_nodes[1]>> \o SubSeq(eflr_nodes, 3, Len(eflr_nodes)),
     SubSeq(eflr_nodes, 1, Len(eflr_nodes) - 1),
     <<eflr_nodes[2], eflr_nodes[1]>> \o SubSeq(eflr_nodes, 3, Len(eflr_nodes))}

EditEflrs ==
    /\ CanEdit("EFLR")
    /\ \E k \in 1..Len(doc.LogicalFiles[1].LogicalFile) :
          \E edited \in EflrEdits(doc.LogicalFiles[1].LogicalFile[k].EFLR) :
             doc' = [doc EXCEPT !.LogicalFiles[1].LogicalFile[k].EFLR = edited]
    /\ UNCHANGED binary_kind
    /\ EditFrame("EFLR")

\* The binary file is replaced by a file of another format, or removed.
EnvChange ==
    /\ CanEdit("binary")
    /\ \E kind \in {"LIS", "absent"} : binary_kind' = kind
    /\ UNCHANGED doc
    /\ EditFrame("binary")

(***************************************************************************)
(* read_logical_index_from_xml(index_path, archive_root), step by step.    *)
(* ipc names the step the read is at; a step that raises leaves ipc at     *)
(* "failed" with the exception in read_exc, and the index being built is   *)
(* dropped with the frame of the call.                                     *)
(***************************************************************************)
Raise(exc) ==
    /\ read_exc' = exc
    /\ ipc' = "failed"
    /\ logical_index' = <<>>

Goto(step) ==
    /\ read_exc' = read_exc
    /\ ipc' = step

\* The path the binary file is looked for at.
original_file_path == os_path_join(archive_root, doc.path)

\* The document is opened and parsed and the tag of its root is checked.
ReadOpenDocument ==
    /\ ipc = "written"
    /\ \E root \in ArchiveRoots : archive_root' = root
    /\ events' = Append(events, [op |-> "parse"])
    /\ IF doc.tag # "RP66V1FileIndex"
       THEN Raise("ExceptionRP66V1IndexXMLRead(root_tag)")
       ELSE Goto("check_schema") /\ UNCHANGED logical_index
    /\ UNCHANGED <<logical_file_sequence, binary_kind, doc, doc_edited,
                   logical_file_count, rp66v1file, lf_next>>
    /\ UNCHANGED <<rleVars, faVars, vrVars, lpVars, mainVars, lfwVars, stVars, chVars, ffVars>>

\* The step without the comparison.
ReadCheckSchema_NoCheck ==
    /\ ipc = "check_schema"
    /\ Goto("resolve_file")
    /\ UNCHANGED <<logical_file_sequence, archive_root, binary_kind, doc, doc_edited,
                   logical_index, logical_file_count, rp66v1file, events, lf_next>>
    /\ UNCHANGED <<rleVars, faVars, vrVars, lpVars, mainVars, lfwVars, stVars, chVars, ffVars>>

\* The schema version of the root is compared with XML_SCHEMA_VERSION.
ReadCheckSchema ==
    /\ ipc = "check_schema"
    /\ IF doc.schema_version # XML_SCHEMA_VERSION
       THEN Raise("ExceptionRP66V1IndexXMLRead(schema_version)")
       ELSE Goto("resolve_file") /\ UNCHANGED logical_index
    /\ UNCHANGED <<logical_file_sequence, archive_root, binary_kind, doc, doc_edited,
                   logical_file_count, rp66v1file, events, lf_next>>
    /\ UNCHANGED <<rleVars, faVars, vrVars, lpVars, mainVars, lfwVars, stVars, chVars, ffVars>>

\* The look-up without the test of the type.
ReadResolveFile_NoTypeCheck ==
    /\ ipc = "resolve_file"
    /\ IF ~os_path_isfile(original_file_path, binary_kind)
       THEN /\ events' = Append(events, [op |-> "isfile", path |-> original_file_path])
            /\ Raise("ExceptionRP66V1IndexXMLRead(not_a_file)")
       ELSE /\ events' = events \o <<[op |-> "isfile", path |-> original_file_path],
                                     [op |-> "binary_file_type", path |-> original_file_path]>>
            /\ Goto("storage_unit_label") /\ UNCHANGED logical_index
    /\ UNCHANGED <<logical_file_sequence, archive_root, binary_kind, doc, doc_edited,
                   logical_file_count, rp66v1file, lf_next>>
    /\ UNCHANGED <<rleVars, faVars, vrVars, lpVars, mainVars, lfwVars, stVars, chVars, ffVars>>

\* The binary file is looked up under the archive root and its type is
\* detected.
ReadResolveFile ==
    /\ ipc = "resolve_file"
    /\ IF ~os_path_isfile(original_file_path, binary_kind)
       THEN /\ events' = Append(events, [op |-> "isfile", path |-> original_file_path])
            /\ Raise("ExceptionRP66V1IndexXMLRead(not_a_file)")
       ELSE /\ events' = events \o <<[op |-> "isfile", path |-> original_file_path],
                                     [op |-> "binary_file_type", path |-> original_file_path]>>
            /\ IF binary_file_type_from_path(original_file_path, binary_kind) # "RP66V1"
               THEN Raise("ExceptionRP66V1IndexXMLRead(file_type)")
               ELSE Goto("storage_unit_label") /\ UNCHANGED logical_index
    /\ UNCHANGED <<logical_file_sequence, archive_root, binary_kind, doc, doc_edited,
                   logical_file_count, rp66v1file, lf_next>>
    /\ UNCHANGED <<rleVars, faVars, vrVars, lpVars, mainVars, lfwVars, stVars, chVars, ffVars>>

StoreStorageUnitLabel(sul) ==
    IF sul.exc # "none" THEN Raise(sul.exc)
    ELSE /\ Goto("logical_files")
         /\ logical_index' = [id                       |-> original_file_path,
                              storage_unit_label       |-> sul.val,
                              logical_files            |-> <<>>,
                              visible_record_positions |-> <<>>]

\* The Logical Index is created and the Storage Unit Label is read into it.
ReadStorageUnitLabel ==
    /\ ipc = "storage_unit_label"
    /\ StoreStorageUnitLabel(read_storage_unit_label_from_xml(doc))
    /\ UNCHANGED <<logical_file_sequence, archive_root, binary_kind, doc, doc_edited,
                   logical_file_count, rp66v1file, events, lf_next>>
    /\ UNCHANGED <<rleVars, faVars, vrVars, lpVars, mainVars, lfwVars, stVars, chVars, ffVars>>

\* The binary file is opened; without LogicalFile elements to read it is
\* closed at once.
OpenBinary(logical_files_node, count) ==
    IF count.exc # "none"
    THEN Raise("ValueError") /\ UNCHANGED <<logical_file_count, rp66v1file, events, lf_next>>
    ELSE /\ logical_file_count' = count.val
         /\ lf_next' = 1
         /\ UNCHANGED logical_index
         /\ IF Len(logical_files_node.LogicalFile) = 0
            THEN /\ events' = events \o <<[op |-> "open", path |-> original_file_path],
                                          [op |-> "close", path |-> original_file_path]>>
                 /\ rp66v1file' = "closed"
                 /\ Goto("check_count")
            ELSE /\ events' = Append(events, [op |-> "open", path |-> original_file_path])
                 /\ rp66v1file' = "open"
                 /\ Goto("logical_file")

LogicalFilesNode(node) ==
    IF node.exc # "none"
    THEN Raise(node.exc) /\ UNCHANGED <<logical_file_count, rp66v1file, events, lf_next>>
    ELSE OpenBinary(node.val, PyInt(node.val.count, 10))

\* The single LogicalFiles element, int() of its count, and the binary file
\* opened for the record reader.
ReadLogicalFilesNode ==
    /\ ipc = "logical_files"
    /\ LogicalFilesNode(xml_single_element(doc.LogicalFiles))
    /\ UNCHANGED <<logical_file_sequence, archive_root, binary_kind, doc, doc_edited>>
    /\ UNCHANGED <<rleVars, faVars, vrVars, lpVars, mainVars, lfwVars, stVars, chVars, ffVars>>

\* The LogicalFile elements of the document.
LogicalFileNodes == doc.LogicalFiles[1].LogicalFile

AddLogicalFile(r, last) ==
    IF r.exc # "none"
    THEN /\ Raise(r.exc)
         /\ events' = events \o r.calls \o <<[op |-> "close", path |-> original_file_path]>>
         /\ rp66v1file' = "closed"
         /\ lf_next' = lf_next
    ELSE /\ logical_index' = [logical_index EXCEPT !.logical_files = Append(@, r.val)]
         /\ lf_next' = lf_next + 1
         /\ IF last
            THEN /\ events' = events \o r.calls
                                     \o <<[op |-> "close", path |-> original_file_path]>>
                 /\ rp66v1file' = "closed"
                 /\ Goto("check_count")
            ELSE /\ events' = events \o r.calls
                 /\ rp66v1file' = rp66v1file
                 /\ Goto("logical_file")

\* One turn of the loop over the LogicalFile elements: the element is read
\* against the open binary file and the Logical File appended to the index.
\* The file is closed when the loop ends or an exception leaves it.
ReadLogicalFile ==
    /\ ipc = "logical_file"
    /\ AddLogicalFile(read_logical_file_from_xml(LogicalFileNodes[lf_next],
                          FileRecords(logical_file_sequence.logical_files)),
                      lf_next = Len(LogicalFileNodes))
    /\ UNCHANGED <<logical_file_sequence, archive_root, binary_kind, doc, doc_edited,
                   logical_file_count>>
    /\ UNCHANGED <<rleVars, faVars, vrVars, lpVars, mainVars, lfwVars, stVars, chVars, ffVars>>

\* The check of the count that lets fewer Logical Files than declared pass.
ReadCheckCount_AtMost ==
    /\ ipc = "check_count"
    /\ IF Len(logical_index.logical_files) > logical_file_count
       THEN Raise("ExceptionRP66V1IndexXMLRead(count)")
       ELSE Goto("visible_records") /\ UNCHANGED logical_index
    /\ UNCHANGED <<logical_file_sequence, archive_root, binary_kind, doc, doc_edited,
                   logical_file_count, rp66v1file, events, lf_next>>
    /\ UNCHANGED <<rleVars, faVars, vrVars, lpVars, mainVars, lfwVars, stVars, chVars, ffVars>>

\* The number of Logical Files read is compared with the declared count.
ReadCheckCount ==
    /\ ipc = "check_count"
    /\ IF Len(logical_index.logical_files) # logical_file_count
       THEN Raise("ExceptionRP66V1IndexXMLRead(count)")
       ELSE Goto("visible_records") /\ UNCHANGED logical_index
    /\ UNCHANGED <<logical_file_sequence, archive_root, binary_kind, doc, doc_edited,
                   logical_file_count, rp66v1file, events, lf_next>>
    /\ UNCHANGED <<rleVars, faVars, vrVars, lpVars, mainVars, lfwVars, stVars, chVars, ffVars>>

StoreVisibleRecords(rle_vr) ==
    IF rle_vr.exc # "none" THEN Raise(rle_vr.exc)
    ELSE /\ Goto("done")
         /\ logical_index' = [logical_index EXCEPT
                                 !.visible_record_positions = RLEValues(rle_vr.val)]

VisibleRecordsNode(node) ==
    IF node.exc # "none" THEN Raise(node.exc)
    ELSE StoreVisibleRecords(xml_rle_read(node.val))

\* The Visible Record positions are read and the index is returned.
ReadVisibleRecords ==
    /\ ipc = "visible_records"
    /\ VisibleRecordsNode(xml_single_element(doc.VisibleRecords))
    /\ UNCHANGED <<logical_file_sequence, archive_root, binary_kind, doc, doc_edited,
                   logical_file_count, rp66v1file, events, lf_next>>
    /\ UNCHANGED <<rleVars, faVars, vrVars, lpVars, mainVars, lfwVars, stVars, chVars, ffVars>>

NextIx ==
    \/ WriteIndex
    \/ EditRootTag
    \/ EditSchemaVersion
    \/ EditEflrs
    \/ EnvChange
    \/ ReadOpenDocument
    \/ ReadCheckSchema
    \/ ReadResolveFile
    \/ ReadStorageUnitLabel
    \/ ReadLogicalFilesNode
    \/ ReadLogicalFile
    \/ ReadCheckCount
    \/ ReadVisibleRecords

SpecIx == InitIx /\ [][NextIx]_vars

(***************************************************************************)
(* Properties of the index scenario.                                       *)
(***************************************************************************)
\* The read has started on a written document.
ReadStarted == ipc \notin {"memory", "write_failed", "written"}

\* The read has ended, with an exception or with an index.
ReadEnded == ipc \in {"failed", "done"}

\* No call of one of these operations has been made.
NoEvent(ops) == \A i \in 1..Len(events) : events[i].op \notin ops

\* A LogicalFile element that breaks the ordering rule.
BadOrdering(node) ==
    \/ Len(node.EFLR) < 2
    \/ node.EFLR[1].set_type # "FILE-HEADER"
    \/ node.EFLR[2].set_type # "ORIGIN"

MalformedLogicalFile ==
    {"ExceptionRP66V1IndexXMLRead(eflr_count)", "ExceptionRP66V1IndexXMLRead(first_eflr)",
     "ExceptionRP66V1IndexXMLRead(second_eflr)"}

\* The Logical Files of the index being built, none before it is created.
AddedLogicalFiles == IF logical_index = <<>> THEN <<>> ELSE logical_index.logical_files

\* C8: a LogicalFile element with fewer than two EFLR children, or whose first
\* EFLR is not a FILE-HEADER, or whose second is not an ORIGIN, makes the read
\* of that element fail with the error for a malformed Logical File, and no
\* Logical File of the index being built comes from such an element.
C8_OrderingInvariant ==
    /\ [](ReadStarted =>
             \A k \in 1..Len(AddedLogicalFiles) : ~BadOrdering(LogicalFileNodes[k]))
    /\ [][(ipc = "logical_file" /\ BadOrdering(LogicalFileNodes[lf_next]))
             => /\ ipc' = "failed"
                /\ read_exc' \in MalformedLogicalFile
                /\ logical_index' = <<>>]_vars

\* The read met a malformed second LogicalFile element after adding the first.
C8_Witness ==
    /\ ipc = "failed" /\ read_exc \in MalformedLogicalFile
    /\ lf_next = 2 /\ BadOrdering(LogicalFileNodes[2])

FileOperations == {"isfile", "binary_file_type", "open", "get_file_logical_data"}

SchemaError == "ExceptionRP66V1IndexXMLRead(schema_version)"

\* C9 as stated: whatever else the document contains, a root schema_version
\* other than 0.1.0 ends the read with the schema-version error, before the
\* binary file is looked up or opened and before anything else is parsed.
C9_SchemaCheckFirst ==
    (ReadEnded /\ doc.schema_version # "0.1.0")
        => /\ read_exc = SchemaError
           /\ NoEvent(FileOperations)
           /\ logical_index = <<>>

\* C9 for documents whose root element is RP66V1FileIndex: a schema_version
\* other than 0.1.0 stops the read at the schema check with the
\* schema-version error, before the binary file is looked up or opened and
\* before the StorageUnitLabel, LogicalFiles or VisibleRecords are parsed.
C9_SchemaCheckAfterRootTag ==
    (ReadStarted /\ doc.tag = "RP66V1FileIndex" /\ doc.schema_version # "0.1.0")
        => /\ ipc \in {"check_schema", "failed"}
           /\ ipc = "failed" => read_exc = SchemaError
           /\ NoEvent(FileOperations)
           /\ logical_index = <<>>
           /\ logical_file_count = 0

\* The schema check failed on a document that is also malformed further on
\* and whose binary file is gone.
C9_Witness ==
    /\ ipc = "failed" /\ read_exc = SchemaError
    /\ doc.tag = "RP66V1FileIndex"
    /\ {"EFLR", "binary"} \subseteq doc_edited

\* The read has gone past the look-up of the binary file.
FileResolved ==
    /\ ReadStarted
    /\ ipc \notin {"check_schema", "resolve_file"}
    /\ read_exc \notin {"ExceptionRP66V1IndexXMLRead(root_tag)", SchemaError}

\* The archive root joined with the recorded path names an existing file.
SourceFileExists ==
    binary_kind # "absent" /\ AbsParts(os_path_join(archive_root, doc.path)) = BinaryPath

\* C10: the binary file is looked for at the archive root joined with the
\* recorded path; when no file is there the read fails with the error for a
\* missing file, when the file is of another type than RP66V1 it fails with
\* the error for the type; either way the file is never opened for its
\* records and no index is returned.
C10_SourceFileResolution ==
    FileResolved =>
        /\ \A i \in 1..Len(events) :
              events[i].op \in {"isfile", "binary_file_type", "open"}
                 => events[i].path = os_path_join(archive_root, doc.path)
        /\ ~SourceFileExists
              => /\ ipc = "failed"
                 /\ read_exc = "ExceptionRP66V1IndexXMLRead(not_a_file)"
                 /\ NoEvent({"open", "get_file_logical_data"})
                 /\ logical_index = <<>>
        /\ (SourceFileExists /\ binary_kind # "RP66V1")
              => /\ ipc = "failed"
                 /\ read_exc = "ExceptionRP66V1IndexXMLRead(file_type)"
                 /\ NoEvent({"open", "get_file_logical_data"})
                 /\ logical_index = <<>>

\* A file of another format was found where the document points.
C10_Witness ==
    /\ ipc = "failed" /\ read_exc = "ExceptionRP66V1IndexXMLRead(file_type)"
    /\ binary_kind = "LIS" /\ ~doc.path.abs /\ archive_root = Path(TRUE, <<"arch">>)

\* The positions of the EFLRs of a Logical File, in order.
EflrPositions(logical_file) ==
    [i \in 1..Len(logical_file.eflrs) |-> logical_file.eflrs[i].position]

\* An entry of a side-table as written and the entry read in its place, a
\* tuple whose fields are (frame_number, lrsh_position, x_axis).
SameTriple(written, entry) ==
    /\ NumEq(PyIntNum(written.frame_number), entry[1])
    /\ NumEq(PyIntNum(written.lrsh_position), entry[2])
    /\ NumEq(written.x_axis, entry[3])

SameSideTable(written, table) ==
    /\ Len(written) = Len(table)
    /\ \A k \in 1..Len(written) : SameTriple(written[k], table[k])

\* The same Frame Arrays with the same channels, and the same side-table
\* under the identity of each.
SameFrameArrays(a, b) ==
    /\ a.log_pass = b.log_pass
    /\ Len(a.iflr_position_map) = Len(b.iflr_position_map)
    /\ \A j \in 1..Len(a.iflr_position_map) :
          /\ MapHas(b.iflr_position_map, a.iflr_position_map[j].key)
          /\ SameSideTable(a.iflr_position_map[j].val,
                           MapGet(b.iflr_position_map, a.iflr_position_map[j].key))

SameLogicalFiles(a, b) ==
    /\ Len(a) = Len(b)
    /\ \A k \in 1..Len(a) :
          /\ EflrPositions(a[k]) = EflrPositions(b[k])
          /\ SameFrameArrays(a[k], b[k])

\* C1: the document written from a Logical Index, unedited and read against
\* the unchanged binary file, gives back an index with the same number of
\* Logical Files, the same EFLR positions in the same order, the same Frame
\* Arrays and channels and the same triples for every Frame Array.
C1_IndexRoundTrip ==
    (ReadEnded /\ doc_edited = {} /\ SourceFileExists)
        => /\ ipc = "done"
           /\ SameLogicalFiles(logical_file_sequence.logical_files,
                               logical_index.logical_files)

(***************************************************************************)
(* The document scenario: a document written by hand, or changed after it  *)
(* was written, is read against the binary file it names.  The documents   *)
(* are those of a two-file index with one element changed.                 *)
(***************************************************************************)
\* The index of the binary file: a Logical File with a Frame Array, then one
\* without.
DocIndex == MakeLogicalIndex(Path(FALSE, <<"data", "a.dlis">>), <<"frames", "plain">>)

\* The document the write path makes of it.
BaseDocument == write_logical_file_sequence_to_xml(DocIndex, TRUE, "RP66V1").elem

\* StorageUnitLabel elements with each attribute as the format wants it or
\* otherwise, the integers in both notations.
SulElements ==
    [sequence_number        : IntTexts(1) \cup IntTexts(0) \cup {FormatDec(-1)},
     dlis_version           : {"V1.00", "V2.00"},
     storage_unit_structure : {"RECORD", "FIXED"},
     maximum_record_length  : IntTexts(8192),
     storage_set_identifier : {"Default Storage Set"}]

SulDocuments == {[BaseDocument EXCEPT !.StorageUnitLabel = <<e>>] : e \in SulElements}

\* The FrameArray element of the first Logical File of the document.
BaseFrameArray == BaseDocument.LogicalFiles[1].LogicalFile[1].LogPass[1].FrameArray[1]

\* The first Logical File with a second FrameArray element: the same element
\* under the same or another O and C, the integers in both notations.
SecondFrameArrays ==
    {[BaseFrameArray EXCEPT !.O = o, !.C = c] :
        o \in IntTexts(11) \cup {FormatDec(12)}, c \in IntTexts(0)}

TwoFrameArrayDocuments ==
    {[BaseDocument EXCEPT !.LogicalFiles[1].LogicalFile[1].LogPass[1].FrameArray =
                              <<BaseFrameArray, e>>] : e \in SecondFrameArrays}

\* A list of child elements with its element missing, there twice or there
\* three times.
Multiplicities(elems) == {<<>>, elems \o elems, elems \o elems \o elems}

\* The IFLR element of that FrameArray element.
BaseIflr == BaseFrameArray.IFLR[1]

\* The document with another FrameArray element in its first Logical File.
WithFrameArray(e) ==
    [BaseDocument EXCEPT !.LogicalFiles[1].LogicalFile[1].LogPass[1].FrameArray = <<e>>]

WithIflr(e) == WithFrameArray([BaseFrameArray EXCEPT !.IFLR = <<e>>])

\* The document with one of the elements the reader expects once missing or
\* duplicated, by the name of that element.
MultiplicityDocumentsOf(tag) ==
    CASE tag = "StorageUnitLabel" ->
            {[BaseDocument EXCEPT !.StorageUnitLabel = m] :
                m \in Multiplicities(BaseDocument.StorageUnitLabel)}
      [] tag = "LogicalFiles" ->
            {[BaseDocument EXCEPT !.LogicalFiles = m] :
                m \in Multiplicities(BaseDocument.LogicalFiles)}
      [] tag = "VisibleRecords" ->
            {[BaseDocument EXCEPT !.VisibleRecords = m] :
                m \in Multiplicities(BaseDocument.VisibleRecords)}
      [] tag = "IFLR" ->
            {WithFrameArray([BaseFrameArray EXCEPT !.IFLR = m]) :
                m \in Multiplicities(BaseFrameArray.IFLR)}
      [] tag = "LRSH" ->
            {WithIflr([BaseIflr EXCEPT !.LRSH = m]) : m \in Multiplicities(BaseIflr.LRSH)}
      [] tag = "FrameNumbers" ->
            {WithIflr([BaseIflr EXCEPT !.FrameNumbers = m]) :
                m \in Multiplicities(BaseIflr.FrameNumbers)}
      [] tag = "Xaxis" ->
            {WithIflr([BaseIflr EXCEPT !.Xaxis = m]) : m \in Multiplicities(BaseIflr.Xaxis)}

SingleElementTags ==
    {"StorageUnitLabel", "LogicalFiles", "VisibleRecords", "IFLR", "LRSH", "FrameNumbers",
     "Xaxis"}

MultiplicityDocuments == UNION {MultiplicityDocumentsOf(tag) : tag \in SingleElementTags}

HandWrittenDocuments == SulDocuments \cup TwoFrameArrayDocuments

\* The LogicalFile elements of the document.
BaseLogicalFiles == BaseDocument.LogicalFiles[1].LogicalFile

\* The document with another declared count of Logical Files, in either
\* notation, and with all, the first or none of its LogicalFile elements.
CountDocuments ==
    {[BaseDocument EXCEPT !.LogicalFiles[1].count = t,
                          !.LogicalFiles[1].LogicalFile = SubSeq(BaseLogicalFiles, 1, n)] :
        t \in UNION {IntTexts(c) : c \in 0..(Len(BaseLogicalFiles) + 1)},
        n \in 0..Len(BaseLogicalFiles)}

\* The document with the EFLR elements of one of its Logical Files removed
\* or exchanged.
OrderingDocuments ==
    {[BaseDocument EXCEPT !.LogicalFiles[1].LogicalFile[k].EFLR = e] :
        k \in 1..Len(BaseLogicalFiles), e \in UNION {EflrEdits(BaseLogicalFiles[j].EFLR) :
                                                        j \in 1..Len(BaseLogicalFiles)}}

\* The document with another count of frames declared by its IFLR element,
\* in either notation.
LengthDocuments ==
    {WithIflr([BaseIflr EXCEPT !.count = t]) :
        t \in UNION {IntTexts(c) : c \in 0..(MaxFrames + 1)}}

\* The reader is given the document as written, with one element missing
\* or duplicated, with another count of Logical Files or of frames, or with
\* the EFLR elements of a Logical File changed.
InitSe ==
    /\ RleIdle
    /\ FaIdle
    /\ VrIdle
    /\ LpIdle
    /\ MainIdle
    /\ LfwIdle
    /\ StIdle
    /\ ChIdle
    /\ logical_file_sequence = DocIndex
    /\ archive_root = NoPath
    /\ binary_kind = "RP66V1"
    /\ doc \in MultiplicityDocuments \cup CountDocuments \cup OrderingDocuments
                  \cup LengthDocuments \cup {BaseDocument}
    /\ doc_edited = {}
    /\ ipc = "written"
    /\ read_exc = "none"
    /\ logical_index = <<>>
    /\ logical_file_count = 0
    /\ rp66v1file = "closed"
    /\ events = <<>>
    /\ lf_next = 0
    /\ FfIdle

InitDoc ==
    /\ RleIdle
    /\ FaIdle
    /\ logical_file_sequence = DocIndex
    /\ archive_root = NoPath
    /\ binary_kind = "RP66V1"
    /\ doc \in HandWrittenDocuments
    /\ doc_edited = {}
    /\ ipc = "written"
    /\ read_exc = "none"
    /\ logical_index = <<>>
    /\ logical_file_count = 0
    /\ rp66v1file = "closed"
    /\ events = <<>>
    /\ lf_next = 0
    /\ VrIdle
    /\ LpIdle
    /\ MainIdle
    /\ LfwIdle
    /\ StIdle
    /\ ChIdle
    /\ FfIdle

NextDoc ==
    \/ ReadOpenDocument
    \/ ReadCheckSchema
    \/ ReadResolveFile
    \/ ReadStorageUnitLabel
    \/ ReadLogicalFilesNode
    \/ ReadLogicalFile
    \/ ReadCheckCount
    \/ ReadVisibleRecords

SpecDoc == InitDoc /\ [][NextDoc]_vars

SpecSe == InitSe /\ [][NextDoc]_vars

(***************************************************************************)
(* Properties of the document scenario.                                    *)
(***************************************************************************)
\* The integer an attribute text stands for, in either notation.
IntegerOf(text) == xml_integer_attribute_read(text).val

\* The StorageUnitLabel element of the document.
SulNode == doc.StorageUnitLabel[1]

\* The read has gone past the Storage Unit Label.
SulStepDone ==
    /\ FileResolved
    /\ ipc # "storage_unit_label"
    /\ read_exc \notin {"ExceptionRP66V1IndexXMLRead(not_a_file)",
                        "ExceptionRP66V1IndexXMLRead(file_type)"}

InvalidStorageUnitLabel ==
    {"ExceptionIndexXMLRead(dlis_version)", "ExceptionIndexXMLRead(sequence_number)",
     "ExceptionIndexXMLRead(storage_unit_structure)"}

SulInvalid(node) ==
    \/ node.dlis_version # "V1.00"
    \/ IntegerOf(node.sequence_number) <= 0
    \/ node.storage_unit_structure # "RECORD"

\* C11: reading the StorageUnitLabel fails with the error for an invalid
\* label whenever dlis_version is not V1.00, sequence_number is not above 0
\* or storage_unit_structure is not RECORD; a label is returned only when all
\* three hold, made of the document's sequence number, version, maximum
\* record length and storage-set identifier.
C11_SulValidation ==
    /\ (SulStepDone /\ SulInvalid(SulNode))
          => (ipc = "failed" /\ read_exc \in InvalidStorageUnitLabel)
    /\ ipc = "logical_files"
          => /\ ~SulInvalid(SulNode)
             /\ logical_index.storage_unit_label =
                   create_storage_unit_label(IntegerOf(SulNode.sequence_number),
                       encode_ascii(SulNode.dlis_version),
                       IntegerOf(SulNode.maximum_record_length),
                       encode_ascii(SulNode.storage_set_identifier))

\* The LogicalFile element k has been read, with or without success.
LogicalFileRead(k) ==
    /\ ReadStarted
    /\ \/ lf_next > k
       \/ ipc = "failed" /\ lf_next = k

\* Two FrameArray elements declare the same identity.
SameIdentity(a, b) ==
    /\ IntegerOf(a.O) = IntegerOf(b.O)
    /\ IntegerOf(a.C) = IntegerOf(b.C)
    /\ a.I = b.I

HasDuplicate(frame_array_nodes) ==
    \E i \in 1..Len(frame_array_nodes) : \E j \in (i + 1)..Len(frame_array_nodes) :
        SameIdentity(frame_array_nodes[i], frame_array_nodes[j])

\* C12: a LogicalFile element with two FrameArray elements of the same
\* identity (O, C, I) is read with the duplicate error and gives no Logical
\* File, so the side-table of the first is never replaced by the second's.
C12_DuplicateFrameArray ==
    \A k \in 1..Len(LogicalFileNodes) :
        (LogicalFileRead(k) /\ HasDuplicate(FrameArrayNodes(LogicalFileNodes[k].LogPass)))
            => /\ ipc = "failed" /\ lf_next = k
               /\ read_exc = "ExceptionRP66V1IndexXMLRead(duplicate)"
               /\ logical_index = <<>>

(***************************************************************************)
(* The Visible Record of an IFLR.  The side-table of a Frame Array keeps   *)
(* the LRSH position of each frame only; the frame reader finds the        *)
(* Visible Record with visible_record_prior.                               *)
(***************************************************************************)
\* The search with an element equal to the position left out.
RECURSIVE PriorFrom_Strict(_, _, _)
PriorFrom_Strict(positions, p, i) ==
    IF i = 0 THEN [exc |-> "PositionNotFound", val |-> 0]
    ELSE IF positions[i] < p THEN [exc |-> "none", val |-> positions[i]]
    ELSE PriorFrom_Strict(positions, p, i - 1)

\* The search for the predecessor, from position i of the ascending sequence
\* downwards.
RECURSIVE PriorFrom(_, _, _)
PriorFrom(positions, p, i) ==
    IF i = 0 THEN [exc |-> "PositionNotFound", val |-> 0]
    ELSE IF positions[i] <= p THEN [exc |-> "none", val |-> positions[i]]
    ELSE PriorFrom(positions, p, i - 1)

\* LogicalFile.VisibleRecordPositions.visible_record_prior(lrsh_position)
visible_record_prior(positions, p) == PriorFrom(positions, p, Len(positions))

\* Visible Record positions of a file, those of the documented example.
VrPositionValues == {80, 57416, 90180}

\* LRSH positions below, at and above them.
LrshTargets == {16, 79, 80, 84, 57416, 57600, 90180, 90184}

\* Ascending sequences of Visible Record positions.
VrSequences ==
    {v \in SeqsUpTo(VrPositionValues, Cardinality(VrPositionValues)) :
        \A i \in 1..(Len(v) - 1) : v[i] < v[i + 1]}

InitVr ==
    /\ RleIdle
    /\ FaIdle
    /\ IxIdle
    /\ vr_positions \in VrSequences
    /\ lrsh_target \in LrshTargets
    /\ vr_prior = [exc |-> "unread", val |-> 0]
    /\ vpc = "frame"
    /\ LpIdle
    /\ MainIdle
    /\ LfwIdle
    /\ StIdle
    /\ ChIdle
    /\ FfIdle

\* HTML._write_frame_array_in_html: the Visible Record of the frame's LRSH
\* position is looked up.
VisibleRecordPrior ==
    /\ vpc = "frame"
    /\ vr_prior' = visible_record_prior(vr_positions, lrsh_target)
    /\ vpc' = "resolved"
    /\ UNCHANGED <<vr_positions, lrsh_target>>
    /\ UNCHANGED <<rleVars, faVars, ixVars, lpVars, mainVars, lfwVars, stVars, chVars, ffVars>>

NextVr == VisibleRecordPrior

SpecVr == InitVr /\ [][NextVr]_vars

\* The positions of the sequence that do not exceed the target.
NotAbove == {vr_positions[i] : i \in 1..Len(vr_positions)} \cap 0..lrsh_target

\* The documented example: positions 0x50, 0xe048, 0x16044.
IsExample == vr_positions = <<80, 57416, 90180>>

\* C13: for an ascending sequence of Visible Record positions and an LRSH
\* position, the resolution gives the greatest position not above the LRSH
\* position, one equal to it included, and fails when every position is
\* above it; with 0x50, 0xe048, 0x16044 the position 0xe100 gives 0xe048 and
\* 0x10 fails.
C13_PositionResolution ==
    vpc = "resolved" =>
        /\ NotAbove = {} => vr_prior.exc = "PositionNotFound"
        /\ NotAbove # {} =>
              /\ vr_prior.exc = "none"
              /\ vr_prior.val \in NotAbove
              /\ \A v \in NotAbove : v <= vr_prior.val
        /\ (IsExample /\ lrsh_target = 57600) => vr_prior = [exc |-> "none", val |-> 57416]
        /\ (IsExample /\ lrsh_target = 16) => vr_prior.exc = "PositionNotFound"

\* A position that is itself a Visible Record position was resolved.
C13_Witness ==
    /\ vpc = "resolved" /\ IsExample
    /\ lrsh_target = 57416 /\ vr_prior = [exc |-> "none", val |-> 57416]

(***************************************************************************)
(* The Log Pass scenario: a Log Pass and a map of side-tables that may     *)
(* lack some of its Frame Arrays are handed to log_pass_to_XML.            *)
(***************************************************************************)
\* Most Frame Arrays of a Log Pass.
MaxFrameArrays == 3

\* Three Frame Arrays, told apart by their identifier.
FrameArrayNamed(I) ==
    [ident |-> ObjectName(IntValue(11), IntValue(0), encode_ascii(I)),
     description |-> encode_ascii(""), channels |-> <<FrameChannelX>>]

FrameArrayPool == <<FrameArrayA, FrameArrayNamed("1B"), FrameArrayNamed("2B")>>

\* The side-table of each, in a Visible Record of its own.
PoolSideTable(n) == SideTableOf("frames", VrPosition(n))

\* Log Passes: sequences of different Frame Arrays of the pool.
LogPasses ==
    {[present |-> TRUE, frame_arrays |-> [i \in 1..Len(q) |-> FrameArrayPool[q[i]]]] :
        q \in {r \in SeqsUpTo(1..Len(FrameArrayPool), MaxFrameArrays) :
                  \A i \in 1..Len(r) : \A j \in 1..Len(r) : i # j => r[i] # r[j]}}

RECURSIVE MapOf(_, _)
\* The map with the side-tables of the Frame Arrays of the pool in keys.
MapOf(keys, n) ==
    IF n = 0 THEN <<>>
    ELSE MapOf(keys, n - 1)
         \o (IF n \in keys
             THEN <<[key |-> FrameArrayPool[n].ident, val |-> PoolSideTable(n)]>>
             ELSE <<>>)

InitLp ==
    /\ RleIdle
    /\ FaIdle
    /\ IxIdle
    /\ VrIdle
    /\ lp_input \in LogPasses
    /\ \E keys \in SUBSET (1..Len(FrameArrayPool)) : lp_map = MapOf(keys, Len(FrameArrayPool))
    /\ lp_result = [exc |-> "unwritten"]
    /\ lpc = "memory"
    /\ MainIdle
    /\ LfwIdle
    /\ StIdle
    /\ ChIdle
    /\ FfIdle

\* log_pass_to_XML(log_pass, iflr_data_map, xml_stream)
LogPassToXml ==
    /\ lpc = "memory"
    /\ lp_result' = log_pass_to_XML(lp_input, lp_map)
    /\ lpc' = "written"
    /\ UNCHANGED <<lp_input, lp_map>>
    /\ UNCHANGED <<rleVars, faVars, ixVars, vrVars, mainVars, lfwVars, stVars, chVars, ffVars>>

NextLp == LogPassToXml

SpecLp == InitLp /\ [][NextLp]_vars

\* The Frame Arrays of the Log Pass, by their place, whose identity is no key
\* of the map.
WithoutSideTable ==
    {i \in 1..Len(lp_input.frame_arrays) :
        \A j \in 1..Len(lp_map) : lp_map[j].key # lp_input.frame_arrays[i].ident}

\* The side-table the map holds for a Frame Array.
OwnSideTable(frame_array) ==
    lp_map[CHOOSE j \in 1..Len(lp_map) : lp_map[j].key = frame_array.ident].val

FirstWithout == CHOOSE i \in WithoutSideTable : \A j \in WithoutSideTable : i <= j

\* C14: log_pass_to_XML fails with the error for an inconsistent Log Pass at
\* the first Frame Array, in Log Pass order, whose identity is no key of the
\* map; the Frame Arrays before it have been written, each with its own
\* side-table, and none after it; without such a Frame Array all are written.
C14_WriteConsistency ==
    lpc = "written" =>
        /\ WithoutSideTable = {} =>
              /\ lp_result.exc = "none"
              /\ Len(lp_result.stream) = Len(lp_input.frame_arrays)
        /\ WithoutSideTable # {} =>
              /\ lp_result.exc = "ExceptionLogPassXML"
              /\ Len(lp_result.stream) = FirstWithout - 1
        /\ \A i \in 1..Len(lp_result.stream) :
              lp_result.stream[i] =
                 frame_array_to_XML(lp_input.frame_arrays[i],
                                    OwnSideTable(lp_input.frame_arrays[i])).elem

\* Of three Frame Arrays the second alone has no side-table: the first was
\* written, the third was not.
C14_Witness ==
    /\ lpc = "written"
    /\ Len(lp_input.frame_arrays) = 3 /\ WithoutSideTable = {2}
    /\ lp_result.exc = "ExceptionLogPassXML" /\ Len(lp_result.stream) = 1

(***************************************************************************)
(* The two notations of an integer attribute.                              *)
(***************************************************************************)
\* The Storage Unit Label element with its integers rewritten in decimal.
DecimalSul(node) ==
    [node EXCEPT !.sequence_number = FormatDec(IntegerOf(@)),
                 !.maximum_record_length = FormatDec(IntegerOf(@))]

DecimalDocument == [doc EXCEPT !.StorageUnitLabel = <<DecimalSul(SulNode)>>]

\* C15: an integer attribute of the read path is read to the same integer in
\* decimal and in 0x-prefixed hexadecimal; here for sequence_number and
\* maximum_record_length: the Storage Unit Label read from the document is
\* the one read from the document with both rewritten in decimal.
C15_BothNotations ==
    SulStepDone =>
        read_storage_unit_label_from_xml(doc) = read_storage_unit_label_from_xml(DecimalDocument)

(***************************************************************************)
(* The batch driver and main.  A file of the batch is what the driver      *)
(* meets at it: the type its first bytes show, the state of the directory  *)
(* of its output path, and how the scan and the write of its index end.    *)
(***************************************************************************)
\* Most files of a batch.
MaxFiles == 2

\* os.path.getsize of an input file, and of the index written for it.
InputSize == 32768
IndexSize == 1024

\* The job counts given: 0 asks for one worker for each CPU.
JobsValues == {0, 2}

\* multiprocessing.cpu_count()
CpuCount == 4

BatchFile(type, out_dir, raised, raised_in, subdir) ==
    [type |-> type, out_dir |-> out_dir, raised |-> raised, raised_in |-> raised_in,
     subdir |-> subdir]

\* The files a batch is made of: one indexed into an existing directory, one
\* into a directory to be made, one whose directory cannot be made, one
\* whose scan raises, one whose index raises while it is written, one of
\* another type, and one in a sub-directory of the input directory.
BatchFileKinds ==
    {BatchFile("RP66V1", "exists", "none", "none", FALSE),
     BatchFile("RP66V1", "missing", "none", "none", FALSE),
     BatchFile("RP66V1", "blocked", "none", "none", FALSE),
     BatchFile("RP66V1", "exists", "ExceptionTotalDepthRP66V1", "scan", FALSE),
     BatchFile("RP66V1", "exists", "ExceptionLogPassXML", "write", FALSE),
     BatchFile("LIS", "exists", "none", "none", FALSE),
     BatchFile("RP66V1", "exists", "none", "none", TRUE)}

\* DirWalk.dirWalk(dir_in, dir_out, recursive=...): the paths it yields, a
\* path being the place of the file in the batch.
Walk(files, recursive) ==
    SelectSeq([i \in 1..Len(files) |-> i], LAMBDA i : recursive \/ ~files[i].subdir)

\* The walk of the driver in use: index_dir_multiprocessing walks with
\* recursive=True, index_dir_or_file with recursive=recurse.
TheWalk == Walk(batch_files, jobs_mode = "parallel" \/ recurse)

IndexResult(path_input, size_input, size_index, time, exception, ignored) ==
    [path_input |-> path_input, size_input |-> size_input, size_index |-> size_index,
     time |-> time, exception |-> exception, ignored |-> ignored]

\* No result yet.
NoResult == [path_input |-> 0]

\* The try block of index_a_single_file and its two handlers, with what it
\* leaves at path_out + '.xml': the output is opened once the scan is done,
\* and nothing removes it when the write raises.  A measured time is 1.
IndexTry(path_in, file) ==
    IF file.raised_in = "scan"
    THEN [exc |-> "none", val |-> IndexResult(path_in, InputSize, 0, 0, TRUE, FALSE),
          output |-> "absent"]
    ELSE IF file.raised_in = "write"
    THEN [exc |-> "none", val |-> IndexResult(path_in, InputSize, 0, 0, TRUE, FALSE),
          output |-> "partial"]
    ELSE [exc |-> "none", val |-> IndexResult(path_in, InputSize, IndexSize, 1, FALSE, FALSE),
          output |-> "complete"]

\* index_a_single_file(path_in, path_out, private): os.makedirs is called
\* before the try block.
index_a_single_file(path_in, file) ==
    IF file.type # "RP66V1"
    THEN [exc |-> "none", val |-> IndexResult(path_in, 0, 0, 0, FALSE, TRUE),
          output |-> "absent"]
    ELSE IF file.out_dir = "blocked"
    THEN [exc |-> "OSError", val |-> NoResult, output |-> "absent"]
    ELSE IndexTry(path_in, file)

\* A task of the pool that has not run.
NotRun == [exc |-> "not run", val |-> NoResult, output |-> "absent"]

InitMain ==
    /\ RleIdle
    /\ FaIdle
    /\ IxIdle
    /\ VrIdle
    /\ LpIdle
    /\ LfwIdle
    /\ StIdle
    /\ ChIdle
    /\ batch_files \in SeqsUpTo(BatchFileKinds, MaxFiles)
    /\ jobs_mode \in {"sequential", "parallel"}
    /\ jobs \in JobsValues
    /\ recurse \in BOOLEAN
    /\ pool = 0
    /\ plot_wanted \in BOOLEAN
    /\ task_out = [i \in 1..Len(TheWalk) |-> NotRun]
    /\ batch_result = [i \in 1..Len(TheWalk) |-> NoResult]
    /\ outputs = [i \in 1..Len(batch_files) |-> "absent"]
    /\ batch_next = 1
    /\ batch_exc = "none"
    /\ printed = <<>>
    /\ exit_code = -1
    /\ mpc = "index"
    /\ FfIdle

\* The driver takes the outcome of one file: a result goes into the dict,
\* an exception leaves the driver and main.
TakeOutcome(outcome) ==
    IF outcome.exc # "none"
    THEN /\ batch_exc' = outcome.exc
         /\ mpc' = "raised"
         /\ UNCHANGED <<batch_result, batch_next>>
    ELSE /\ batch_result' = [batch_result EXCEPT ![batch_next] = outcome.val]
         /\ batch_next' = batch_next + 1
         /\ UNCHANGED <<batch_exc, mpc>>

\* What a call of index_a_single_file leaves at the output path of the file.
LeaveOutput(path_in, outcome) == outputs' = [outputs EXCEPT ![path_in] = outcome.output]

\* index_dir_or_file: one turn of the loop over the walk.
IndexNextFile ==
    /\ mpc = "index"
    /\ jobs_mode = "sequential"
    /\ batch_next <= Len(TheWalk)
    /\ TakeOutcome(index_a_single_file(TheWalk[batch_next], batch_files[TheWalk[batch_next]]))
    /\ LeaveOutput(TheWalk[batch_next],
                   index_a_single_file(TheWalk[batch_next], batch_files[TheWalk[batch_next]]))
    /\ UNCHANGED <<batch_files, jobs_mode, jobs, recurse, pool, plot_wanted, task_out, printed,
                   exit_code>>
    /\ UNCHANGED <<rleVars, faVars, ixVars, vrVars, lpVars, lfwVars, stVars, chVars, ffVars>>

\* index_dir_multiprocessing: the pool, of the job count or of the number of
\* CPUs, with one task for every file of the walk.
CreatePool ==
    /\ mpc = "index"
    /\ jobs_mode = "parallel"
    /\ pool = 0
    /\ pool' = IF jobs < 1 THEN CpuCount ELSE jobs
    /\ UNCHANGED <<batch_files, jobs_mode, jobs, recurse, plot_wanted, task_out, batch_result,
                   outputs, batch_next, batch_exc, printed, exit_code, mpc>>
    /\ UNCHANGED <<rleVars, faVars, ixVars, vrVars, lpVars, lfwVars, stVars, chVars, ffVars>>

\* index_dir_multiprocessing: a worker of the pool runs one task.
RunTask ==
    /\ mpc = "index"
    /\ jobs_mode = "parallel"
    /\ pool > 0
    /\ \E i \in 1..Len(TheWalk) :
          /\ task_out[i] = NotRun
          /\ task_out' = [task_out EXCEPT ![i] =
                             index_a_single_file(TheWalk[i], batch_files[TheWalk[i]])]
          /\ LeaveOutput(TheWalk[i], index_a_single_file(TheWalk[i], batch_files[TheWalk[i]]))
    /\ UNCHANGED <<batch_files, jobs_mode, jobs, recurse, pool, plot_wanted, batch_result,
                   batch_next, batch_exc, printed, exit_code, mpc>>
    /\ UNCHANGED <<rleVars, faVars, ixVars, vrVars, lpVars, lfwVars, stVars, chVars, ffVars>>

\* index_dir_multiprocessing: r.get() of the next task, which returns what
\* the task returned or raises what it raised.
GetTaskResult ==
    /\ mpc = "index"
    /\ jobs_mode = "parallel"
    /\ pool > 0
    /\ batch_next <= Len(TheWalk)
    /\ task_out[batch_next] # NotRun
    /\ TakeOutcome(task_out[batch_next])
    /\ UNCHANGED <<batch_files, jobs_mode, jobs, recurse, pool, plot_wanted, task_out, outputs,
                   printed, exit_code>>
    /\ UNCHANGED <<rleVars, faVars, ixVars, vrVars, lpVars, lfwVars, stVars, chVars, ffVars>>

\* The rows of the summary table: the files with an input size.
TableRows == SelectSeq(batch_result, LAMBDA r : r.size_input > 0)

\* main: the summary table.  An exception in it is logged; the plot, in the
\* same try block, is then not made.
PrintTable ==
    /\ mpc = "index"
    /\ batch_next > Len(TheWalk)
    /\ jobs_mode = "parallel" => pool > 0
    /\ \E failed \in BOOLEAN :
          IF failed
          THEN /\ printed' = printed \o <<"header", "logged: table failed">>
               /\ mpc' = "summary"
          ELSE /\ printed' = printed \o <<"header">> \o [i \in 1..Len(TableRows) |-> "row"]
               /\ mpc' = IF plot_wanted THEN "plot" ELSE "summary"
    /\ UNCHANGED <<batch_files, jobs_mode, jobs, recurse, pool, plot_wanted, task_out,
                   batch_result, outputs, batch_next, batch_exc, exit_code>>
    /\ UNCHANGED <<rleVars, faVars, ixVars, vrVars, lpVars, lfwVars, stVars, chVars, ffVars>>

\* plot_gnuplot(data, gnuplot_dir), return_code being what gnuplot returned.
plot_gnuplot(data, return_code) ==
    IF Len(data) < 2 THEN "ValueError"
    ELSE IF return_code # 0 THEN "IOError"
    ELSE "none"

\* main: the plot; its exception is logged.
PlotGnuplot ==
    /\ mpc = "plot"
    /\ \E return_code \in {0, 1} :
          printed' = IF plot_gnuplot(batch_result, return_code) # "none"
                     THEN Append(printed, "logged: gunplot failed")
                     ELSE Append(printed, "plot")
    /\ mpc' = "summary"
    /\ UNCHANGED <<batch_files, jobs_mode, jobs, recurse, pool, plot_wanted, task_out,
                   batch_result, outputs, batch_next, batch_exc, exit_code>>
    /\ UNCHANGED <<rleVars, faVars, ixVars, vrVars, lpVars, lfwVars, stVars, chVars, ffVars>>

\* The files whose result says they failed.
FailedFiles == {i \in 1..Len(batch_result) : batch_result[i].exception}

\* main returning the number of failed files.
MainReturn_CountFailures ==
    /\ mpc = "summary"
    /\ printed' = Append(printed, "totals")
    /\ exit_code' = Cardinality(FailedFiles)
    /\ mpc' = "returned"
    /\ UNCHANGED <<batch_files, jobs_mode, jobs, recurse, pool, plot_wanted, task_out,
                   batch_result, outputs, batch_next, batch_exc>>
    /\ UNCHANGED <<rleVars, faVars, ixVars, vrVars, lpVars, lfwVars, stVars, chVars, ffVars>>

\* main: the totals and the return.
MainReturn ==
    /\ mpc = "summary"
    /\ printed' = Append(printed, "totals")
    /\ exit_code' = 0
    /\ mpc' = "returned"
    /\ UNCHANGED <<batch_files, jobs_mode, jobs, recurse, pool, plot_wanted, task_out,
                   batch_result, outputs, batch_next, batch_exc>>
    /\ UNCHANGED <<rleVars, faVars, ixVars, vrVars, lpVars, lfwVars, stVars, chVars, ffVars>>

NextMain ==
    IndexNextFile \/ CreatePool \/ RunTask \/ GetTaskResult \/ PrintTable \/ PlotGnuplot \/ MainReturn

SpecMain == InitMain /\ [][NextMain]_vars

\* The batch driver has returned its dict to main.
BatchReturned == mpc \in {"plot", "summary", "returned"}

\* What processing a file raises, wherever it does.
RaisedBy(file) ==
    file.type = "RP66V1" /\ (file.out_dir = "blocked" \/ file.raised # "none")

\* C16: in both modes an exception raised while one file is processed, the
\* creation of its output directory included, never leaves
\* index_a_single_file: no exception leaves the batch driver, and when the
\* driver returns every file has its own result, with exception=True and
\* ignored=False exactly for the files whose processing raised.
C16_FailureIsolation ==
    /\ mpc # "raised"
    /\ BatchReturned =>
          \A i \in 1..Len(TheWalk) :
              /\ batch_result[i].path_input = TheWalk[i]
              /\ batch_result[i].exception = RaisedBy(batch_files[TheWalk[i]])
              /\ batch_result[i].exception => ~batch_result[i].ignored

\* C17: a run of main that completes returns 0, whatever the number of
\* files that failed or were ignored and whether or not the summary table or
\* the plot failed.
C17_ExitCode == mpc = "returned" => exit_code = 0

\* main has returned after a file failed, and after the plot failed.
C17_Witness ==
    /\ mpc = "returned"
    /\ FailedFiles # {}
    /\ \E i \in 1..Len(printed) : printed[i] = "logged: gunplot failed"

(***************************************************************************)
(* The counts of a written FrameArray element (SpecFa).                    *)
(***************************************************************************)
\* The element is as frame_array_to_XML wrote it.
AsWritten == fpc = "written" /\ fa_edited = {}

\* Its FrameNumbers, LRSH and Xaxis blocks.
WrittenBlocks ==
    {fa_element.IFLR[1].FrameNumbers[1], fa_element.IFLR[1].LRSH[1],
     fa_element.IFLR[1].Xaxis[1]}

\* The errors of the count and length checks of the read path.
CountErrors ==
    {"ExceptionIndexXMLRead(count)", "ExceptionIndexXMLRead(rle_len)",
     "ExceptionFrameArrayInit"}

\* Every RLE child of every block converts.
ChildrenConvert ==
    \A b \in WrittenBlocks :
        \A i \in 1..Len(b.items) : ItemConverts(ConvertItem(b.items[i]))

\* A reader passed the checks: it ended in none of their errors, and in no
\* error at all when the children convert.
PassedChecks(r) ==
    r # Unread =>
        /\ r.exc \notin CountErrors
        /\ ChildrenConvert => r.exc = "none" /\ Len(r.val) = Len(iflrs)

\* C18: in a written FrameArray element the 'count' of the IFLR element and
\* of its FrameNumbers, LRSH and Xaxis blocks are the number of entries of
\* the side-table, and the 'rle_len' of each block is the number of its RLE
\* children; so both readers pass their count and length checks on it.
C18_WrittenCounts ==
    AsWritten =>
        /\ HasIflrBlocks
        /\ IntegerOf(fa_element.IFLR[1].count) = Len(iflrs)
        /\ \A b \in WrittenBlocks :
              /\ IntegerOf(b.count) = Len(iflrs)
              /\ IntegerOf(b.rle_len) = Len(b.items)
        /\ PassedChecks(iflr_read)
        /\ PassedChecks(lp_read)

\* A table of two entries written with a block of one RLE child, and read
\* by both readers.
C18_Witness ==
    /\ AsWritten
    /\ Len(iflrs) = 2
    /\ \E b \in WrittenBlocks : Len(b.items) = 1
    /\ iflr_read.exc = "none"
    /\ lp_read.exc = "none"

(***************************************************************************)
(* The Logical File scenario: a Logical File of EFLRs of public and        *)
(* private types is handed to write_logical_file_to_xml with the private   *)
(* flag set or not.                                                        *)
(***************************************************************************)
\* Most EFLRs of the Logical File.
MaxEflrs == 2

\* The set type written with each record type: two public types and a
\* private one.
SetTypeOf(lr_type) ==
    IF lr_type = 0 THEN "FILE-HEADER"
    ELSE IF lr_type = 11 THEN "DICTIONARY"
    ELSE "440-OP-CORE"

EflrObjects ==
    <<[name |-> ObjectName(IntValue(2), IntValue(0), encode_ascii("0"))],
      [name |-> ObjectName(IntValue(2), IntValue(0), encode_ascii("1"))]>>

\* An EFLR by its record type and its number of objects.
EflrChoices == [lr_type : {0, 11, 12}, objects : 0..Len(EflrObjects)]

\* The i-th EFLR of a Logical File, 128 bytes after the one before.
EflrChosen(c, i) ==
    [position |-> Position(80, 84 + 128 * (i - 1)),
     eflr     |-> Eflr(c.lr_type, SetTypeOf(c.lr_type),
                       SubSeq(EflrObjects, 1, c.objects), <<>>)]

EflrLogicalFiles ==
    {LogicalFileWith([i \in 1..Len(q) |-> EflrChosen(q[i], i)], <<>>) :
        q \in SeqsUpTo(EflrChoices, MaxEflrs)}

InitLfw ==
    /\ RleIdle
    /\ FaIdle
    /\ IxIdle
    /\ VrIdle
    /\ LpIdle
    /\ MainIdle
    /\ lfw_input \in EflrLogicalFiles
    /\ lfw_private \in BOOLEAN
    /\ lfw_result = [exc |-> "unwritten"]
    /\ wpc = "memory"
    /\ StIdle
    /\ ChIdle
    /\ FfIdle

\* write_logical_file_to_xml(logical_file_index, logical_file, xml_stream,
\* private)
WriteLogicalFile ==
    /\ wpc = "memory"
    /\ lfw_result' = write_logical_file_to_xml(0, lfw_input, lfw_private)
    /\ wpc' = "written"
    /\ UNCHANGED <<lfw_input, lfw_private>>
    /\ UNCHANGED <<rleVars, faVars, ixVars, vrVars, lpVars, mainVars, stVars, chVars, ffVars>>

NextLfw == WriteLogicalFile

SpecLfw == InitLfw /\ [][NextLfw]_vars

\* The EFLR element carries the positions, the type, the set and the real
\* number of objects of the record.
EflrDescribed(e, r) ==
    /\ IntegerOf(e.vr_position) = r.position.vr_position
    /\ IntegerOf(e.lrsh_position) = r.position.lrsh_position
    /\ IntegerOf(e.lr_type) = r.eflr.lr_type
    /\ encode_ascii(e.set_type) = r.eflr.set.type
    /\ encode_ascii(e.set_name) = r.eflr.set.name
    /\ IntegerOf(e.object_count) = Len(r.eflr.objects)

\* Every object of the record has its Object child, in order.
ObjectsEmitted(e, r) ==
    /\ Len(e.Object) = Len(r.eflr.objects)
    /\ \A k \in 1..Len(e.Object) :
          e.Object[k] = xml_object_name_attributes(r.eflr.objects[k].name)

\* C19: every EFLR of the Logical File is written as an EFLR element with
\* its positions, lr_type, set_type, set_name and an object_count equal to
\* its real number of objects, whatever the private flag; the element has
\* the Object children of the record if the private flag is set or the
\* record type is public, and no Object child otherwise.
C19_PrivateFilter ==
    wpc = "written" =>
        /\ lfw_result.exc = "none"
        /\ Len(lfw_result.elem.EFLR) = Len(lfw_input.eflrs)
        /\ \A i \in 1..Len(lfw_input.eflrs) :
              /\ EflrDescribed(lfw_result.elem.EFLR[i], lfw_input.eflrs[i])
              /\ IF lfw_private \/ is_public(lfw_input.eflrs[i].eflr.lr_type)
                 THEN ObjectsEmitted(lfw_result.elem.EFLR[i], lfw_input.eflrs[i])
                 ELSE lfw_result.elem.EFLR[i].Object = <<>>

\* Written without the private flag: a public record with its two objects,
\* and a private one with two objects counted and none emitted.
C19_Witness ==
    /\ wpc = "written"
    /\ ~lfw_private
    /\ \E i \in 1..Len(lfw_input.eflrs) :
          /\ lfw_input.eflrs[i].eflr.lr_type = 12
          /\ Len(lfw_input.eflrs[i].eflr.objects) = 2
          /\ lfw_result.elem.EFLR[i].Object = <<>>
    /\ \E i \in 1..Len(lfw_input.eflrs) :
          /\ lfw_input.eflrs[i].eflr.lr_type = 11
          /\ Len(lfw_result.elem.EFLR[i].Object) = 2

(***************************************************************************)
(* The re-read of the EFLRs (SpecIx).                                      *)
(***************************************************************************)
\* The calls of the record reader the read has made, in order.
RecordCalls == SelectSeq(events, LAMBDA e : e.op = "get_file_logical_data")

\* The EFLR elements of the k-th LogicalFile element.
EflrNodesOf(k) == LogicalFileNodes[k].EFLR

RECURSIVE CallsBefore(_)
\* The number of EFLR elements of the LogicalFile elements before the k-th.
CallsBefore(k) == IF k <= 1 THEN 0 ELSE CallsBefore(k - 1) + Len(EflrNodesOf(k - 1))

\* The i-th call made for the k-th element had the offsets the i-th EFLR
\* element declares.
CalledAsDeclared(k, i) ==
    /\ RecordCalls[CallsBefore(k) + i].vr_position = IntegerOf(EflrNodesOf(k)[i].vr_position)
    /\ RecordCalls[CallsBefore(k) + i].lrsh_position =
          IntegerOf(EflrNodesOf(k)[i].lrsh_position)

\* The record of the binary file at the offsets an EFLR element declares.
RecordDeclared(eflr_node) ==
    get_file_logical_data(FileRecords(logical_file_sequence.logical_files),
                          IntegerOf(eflr_node.vr_position),
                          IntegerOf(eflr_node.lrsh_position)).val

\* C20: for every LogicalFile element read into a Logical File, the record
\* reader was called once for each EFLR child, in document order, with the
\* offsets that child declares, and the EFLRs of the Logical File are the
\* records the reader returned, in that order, whatever Object children the
\* document holds; no other call is made while no read has failed.
C20_EflrReRead ==
    ReadStarted =>
        /\ \A k \in 1..Len(AddedLogicalFiles) :
              /\ Len(RecordCalls) >= CallsBefore(k + 1)
              /\ Len(AddedLogicalFiles[k].eflrs) = Len(EflrNodesOf(k))
              /\ \A i \in 1..Len(EflrNodesOf(k)) :
                    /\ CalledAsDeclared(k, i)
                    /\ AddedLogicalFiles[k].eflrs[i] = RecordDeclared(EflrNodesOf(k)[i])
        /\ ipc # "failed" => Len(RecordCalls) = CallsBefore(Len(AddedLogicalFiles) + 1)

\* A Logical File read from an element of three EFLR children, the last
\* written without its Object children: three calls, and the third EFLR has
\* the object of the record in the file.
C20_Witness ==
    /\ ReadStarted
    /\ Len(AddedLogicalFiles) >= 1
    /\ \E k \in 1..Len(AddedLogicalFiles) :
          /\ Len(EflrNodesOf(k)) = 3
          /\ EflrNodesOf(k)[3].Object = <<>>
          /\ Len(AddedLogicalFiles[k].eflrs[3].eflr.objects) = 1
          /\ Len(RecordCalls) >= CallsBefore(k) + 3

(***************************************************************************)
(* The traversal scenario: a FrameArray element is read by one of the      *)
(* functions of the read path, and what it leaves for the side-table is    *)
(* traversed more than once.  A Python list yields its items at every      *)
(* traversal; a generator yields each item once.                           *)
(***************************************************************************)
\* Most traversals of one side-table.
MaxTraversals == 2

PyList(items) == [generator |-> FALSE, items |-> items, next |-> 1]

PyGenerator(items) == [generator |-> TRUE, items |-> items, next |-> 1]

\* for v in obj: what the loop sees, and the object after it.
Yielded(obj) ==
    IF obj.generator THEN SubSeq(obj.items, obj.next, Len(obj.items)) ELSE obj.items

Traversed(obj) == IF obj.generator THEN [obj EXCEPT !.next = Len(obj.items) + 1] ELSE obj

\* The functions of the read path that leave a side-table.
SideTableReaders ==
    {"IndexXML.read_logical_file_from_xml", "IndexXML.log_pass_from_XML",
     "LogPassXML.log_pass_from_XML"}

\* The generator the two frame_array_from_XML return, kept as it is.
GeneratorOf(r) ==
    IF r.exc # "none" THEN [exc |-> r.exc] ELSE [exc |-> "none", obj |-> PyGenerator(r.val)]

\* What each reader stores for the side-table of the element:
\* read_logical_file_from_xml stores list(iflr_data), both log_pass_from_XML
\* store the generator.
SideTableStored(reader, frame_array_node) ==
    IF reader = "IndexXML.read_logical_file_from_xml"
    THEN IF iflr_data_from_xml(frame_array_node).exc # "none"
         THEN [exc |-> iflr_data_from_xml(frame_array_node).exc]
         ELSE [exc |-> "none", obj |-> PyList(iflr_data_from_xml(frame_array_node).val)]
    ELSE IF reader = "IndexXML.log_pass_from_XML"
    THEN GeneratorOf(iflr_data_from_xml(frame_array_node))
    ELSE GeneratorOf(LogPassXML_frame_array_from_XML(frame_array_node))

InitSt ==
    /\ RleIdle
    /\ FaIdle
    /\ IxIdle
    /\ VrIdle
    /\ LpIdle
    /\ MainIdle
    /\ LfwIdle
    /\ st_iflrs \in SideTables
    /\ st_reader \in SideTableReaders
    /\ st_table = [exc |-> "unread"]
    /\ st_seen = <<>>
    /\ spc = "element"
    /\ ChIdle
    /\ FfIdle

\* The element written from the side-table is read.
ReadSideTable ==
    /\ spc = "element"
    /\ st_table' = SideTableStored(st_reader, frame_array_to_XML(FrameArrayA, st_iflrs).elem)
    /\ spc' = IF st_table'.exc = "none" THEN "table" ELSE "failed"
    /\ UNCHANGED <<st_iflrs, st_reader, st_seen>>
    /\ UNCHANGED <<rleVars, faVars, ixVars, vrVars, lpVars, mainVars, lfwVars, chVars, ffVars>>

\* A consumer goes through the side-table once.
TraverseSideTable ==
    /\ spc = "table"
    /\ Len(st_seen) < MaxTraversals
    /\ st_seen' = Append(st_seen, Yielded(st_table.obj))
    /\ st_table' = [st_table EXCEPT !.obj = Traversed(@)]
    /\ UNCHANGED <<st_iflrs, st_reader, spc>>
    /\ UNCHANGED <<rleVars, faVars, ixVars, vrVars, lpVars, mainVars, lfwVars, chVars, ffVars>>

NextSt == ReadSideTable \/ TraverseSideTable

SpecSt == InitSt /\ [][NextSt]_vars

\* C21: the side-table left by the read path yields the same triples at
\* every traversal, as many as the table has entries: a traversal does not
\* consume or change it.
C21_SideTableStable ==
    \A i \in 1..Len(st_seen) :
        /\ Len(st_seen[i]) = Len(st_iflrs)
        /\ st_seen[i] = st_seen[1]

(***************************************************************************)
(* The keys of the side-tables of a read index (SpecIx).                   *)
(***************************************************************************)
\* The key is an ObjectName of two integers.
IntegerKey(key) == key.O.t = "int" /\ key.C.t = "int"

\* logical_file.iflr_position_map[frame_array.ident] finds a side-table.
FoundByIdent(logical_file, j) ==
    MapHas(logical_file.iflr_position_map, logical_file.log_pass.frame_arrays[j].ident)

\* C22: in a Logical File of a read index every side-table is stored under
\* an ObjectName with integer O and C, and the identity of each Frame Array
\* of its Log Pass finds a side-table.
C22_KeyIdentity ==
    ReadStarted =>
        \A k \in 1..Len(AddedLogicalFiles) :
            /\ \A j \in 1..Len(AddedLogicalFiles[k].iflr_position_map) :
                  IntegerKey(AddedLogicalFiles[k].iflr_position_map[j].key)
            /\ \A j \in 1..Len(AddedLogicalFiles[k].log_pass.frame_arrays) :
                  FoundByIdent(AddedLogicalFiles[k], j)

(***************************************************************************)
(* The channel scenario: a Frame Channel is written as a Channel element   *)
(* and the element is read.                                                *)
(***************************************************************************)
RECURSIVE JoinComma(_)
\* ','.join(texts)
JoinComma(texts) ==
    IF Len(texts) = 0 THEN <<>>
    ELSE IF Len(texts) = 1 THEN texts[1]
    ELSE texts[1] \o <<",">> \o JoinComma(Tail(texts))

RECURSIVE SplitComma(_)
\* text.split(',')
SplitComma(text) ==
    IF \A i \in 1..Len(text) : text[i] # "," THEN <<text>>
    ELSE <<SubSeq(text, 1, (CHOOSE i \in 1..Len(text) :
                               text[i] = "," /\ \A j \in 1..(i - 1) : text[j] # ",") - 1)>>
         \o SplitComma(SubSeq(text, (CHOOSE i \in 1..Len(text) :
                               text[i] = "," /\ \A j \in 1..(i - 1) : text[j] # ",") + 1,
                              Len(text)))

RECURSIVE Product(_)
Product(ns) == IF Len(ns) = 0 THEN 1 ELSE ns[1] * Product(Tail(ns))

\* LogPass.FrameChannel: the channel keeps what it is given and derives its
\* element count from its dimensions.
FrameChannel(ident, long_name, rep_code, units, dimensions) ==
    [ident |-> ident, long_name |-> long_name, rep_code |-> rep_code, units |-> units,
     dimensions |-> dimensions, count |-> Product(dimensions)]

\* The channel of frame_channel_from_XML once its integers are converted.
FrameChannelRead(channel_node, rep_code, dimensions) ==
    IF rep_code.exc # "none" \/ \E i \in 1..Len(dimensions) : dimensions[i].exc # "none"
    THEN [exc |-> "ValueError"]
    ELSE [exc |-> "none",
          val |-> FrameChannel(encode_ascii(channel_node.I),
                               encode_ascii(channel_node.long_name),
                               rep_code.val,
                               encode_ascii(channel_node.units),
                               [i \in 1..Len(dimensions) |-> dimensions[i].val])]

\* The integers of the 'dimensions' attribute.
DimensionsOf(text) == [i \in 1..Len(SplitComma(text)) |-> PyInt(SplitComma(text)[i], 10)]

\* IndexXML.frame_channel_from_XML, and the same function of LogPassXML:
\* the identifier is the I attribute alone.
frame_channel_from_XML(channel_node) ==
    FrameChannelRead(channel_node, PyInt(channel_node.rep_code, 10),
                     DimensionsOf(JoinComma(channel_node.dimensions)))

FrameChannels ==
    {FrameChannel(ObjectName(IntValue(O), IntValue(C), encode_ascii(I)), encode_ascii(long_name),
                  rep_code, encode_ascii(units), dimensions) :
        O \in {2, 11}, C \in {0, 1}, I \in {"DEPT", "TIME"}, long_name \in {"Depth", ""},
        rep_code \in {2, 7}, units \in {"m", ""}, dimensions \in {<<1>>, <<2, 3>>}}

InitCh ==
    /\ RleIdle
    /\ FaIdle
    /\ IxIdle
    /\ VrIdle
    /\ LpIdle
    /\ MainIdle
    /\ LfwIdle
    /\ StIdle
    /\ ch_input \in FrameChannels
    /\ ch_element = <<>>
    /\ ch_read = [exc |-> "unread"]
    /\ cpc = "memory"
    /\ FfIdle

\* frame_channel_to_XML(channel, xml_stream)
FrameChannelToXml ==
    /\ cpc = "memory"
    /\ ch_element' = frame_channel_to_XML(ch_input)
    /\ cpc' = "written"
    /\ UNCHANGED <<ch_input, ch_read>>
    /\ UNCHANGED <<rleVars, faVars, ixVars, vrVars, lpVars, mainVars, lfwVars, stVars, ffVars>>

\* frame_channel_from_XML(channel_node)
FrameChannelFromXml ==
    /\ cpc = "written"
    /\ ch_read' = frame_channel_from_XML(ch_element)
    /\ cpc' = "read"
    /\ UNCHANGED <<ch_input, ch_element>>
    /\ UNCHANGED <<rleVars, faVars, ixVars, vrVars, lpVars, mainVars, lfwVars, stVars, ffVars>>

NextCh == FrameChannelToXml \/ FrameChannelFromXml

SpecCh == InitCh /\ [][NextCh]_vars

\* The channel read has everything of the channel written but, perhaps, the
\* identifier.
SameBesidesIdent(a, b) ==
    /\ a.long_name = b.long_name
    /\ a.rep_code = b.rep_code
    /\ a.units = b.units
    /\ a.dimensions = b.dimensions
    /\ a.count = b.count

\* The identifier read is the ObjectName that was written.
SameIdent(a, b) == DOMAIN a.ident = {"O", "C", "I"} /\ ObjectNameEq(a.ident, b.ident)

\* C23: the channel read from the element written for a Frame Channel has
\* the same identifier, the full ObjectName, and the same long name,
\* representation code, units, dimensions and element count.
C23_ChannelRoundTrip ==
    cpc = "read" =>
        /\ ch_read.exc = "none"
        /\ SameBesidesIdent(ch_read.val, ch_input)
        /\ SameIdent(ch_read.val, ch_input)


\* ---------------------------------------------------------------------------
\* Parallel dispatch.

\* Every task of the pool has run.
AllTasksRun == \A i \in 1..Len(TheWalk) : task_out[i] # NotRun

\* C24: index_dir_multiprocessing uses a pool of exactly 'jobs' workers when
\* jobs >= 1 and of the CPU count otherwise, has one task for every file of
\* the walk, waits for all of them, and returns a dict with exactly one
\* IndexResult for every submitted path, whatever the order in which the
\* workers finish: no exception leaves it instead.
C24_ParallelDispatch ==
    jobs_mode = "parallel" =>
        /\ pool > 0 => pool = (IF jobs >= 1 THEN jobs ELSE CpuCount)
        /\ DOMAIN task_out = 1..Len(TheWalk)
        /\ mpc # "raised"
        /\ BatchReturned =>
              /\ AllTasksRun
              /\ \A i \in 1..Len(TheWalk) : batch_result[i].path_input = TheWalk[i]


\* ---------------------------------------------------------------------------
\* The unique sub-element rule.

\* The elements of a list of child elements.
ChildSet(elems) == {elems[i] : i \in 1..Len(elems)}

\* The lists of elements xml_single_element is applied to while the
\* document is read, as far as the document has them.
SingleElementLists(d) ==
    {d.StorageUnitLabel, d.LogicalFiles, d.VisibleRecords}
        \cup UNION {UNION {UNION {UNION {
                {fa.IFLR} \cup UNION {{i.LRSH, i.FrameNumbers, i.Xaxis} :
                                          i \in ChildSet(fa.IFLR)} :
                fa \in ChildSet(lp.FrameArray)} :
                lp \in ChildSet(lf.LogPass)} :
                lf \in ChildSet(lfs.LogicalFile)} :
                lfs \in ChildSet(d.LogicalFiles)}

\* C25: xml_single_element returns the matching element when exactly one
\* element matches and fails with the read error when none or several do;
\* so a document with a missing or duplicated StorageUnitLabel,
\* LogicalFiles, VisibleRecords, IFLR, LRSH, FrameNumbers or Xaxis element is
\* rejected with that error and no index is returned, the binary file being
\* where the document says.
C25_UniqueSubElement ==
    /\ \A elems \in SingleElementLists(doc) :
          xml_single_element(elems) =
              IF Len(elems) = 1 THEN [exc |-> "none", val |-> elems[1]]
              ELSE [exc |-> "ExceptionIndexXMLRead(xpath)", val |-> <<>>]
    /\ (ReadEnded /\ SourceFileExists /\ doc \in MultiplicityDocuments) =>
          /\ ipc = "failed"
          /\ read_exc = "ExceptionIndexXMLRead(xpath)"
          /\ logical_index = <<>>
    /\ (ReadEnded /\ SourceFileExists /\ doc = BaseDocument) => ipc = "done"

\* A document with two Xaxis elements has been rejected.
C25_Witness ==
    /\ doc = WithIflr([BaseIflr EXCEPT !.Xaxis = BaseIflr.Xaxis \o BaseIflr.Xaxis])
    /\ SourceFileExists
    /\ ipc = "failed"
    /\ read_exc = "ExceptionIndexXMLRead(xpath)"


(***************************************************************************)
(* The frame reader.  _write_frame_array_in_html reads the frames of a     *)
(* Frame Array that a slice selects: it allocates the rows, then for each  *)
(* selected frame finds the Visible Record, has the file reader fetch the  *)
(* record and stores the frame in the next row.  The side-table is the     *)
(* one the scan of the file built, a list of IFLRData.                     *)
(***************************************************************************)
\* An optional argument: None, or a value.
None == <<>>

Some(v) == <<v>>

IsNone(o) == Len(o) = 0

\* slice(start, stop, step).indices(length), for arguments that are None or
\* not negative and a step that is None or positive.
SliceIndices(sl, length) ==
    [start |-> IF IsNone(sl.start) THEN 0 ELSE Min(sl.start[1], length),
     stop  |-> IF IsNone(sl.stop) THEN length ELSE Min(sl.stop[1], length),
     step  |-> IF IsNone(sl.step) THEN 1 ELSE sl.step[1]]

\* len(range(start, stop, step))
RangeLen(r) == IF r.stop > r.start THEN (r.stop - r.start + r.step - 1) \div r.step ELSE 0

\* Slice.count(length): the number of indices the slice selects.
SliceCount(sl, length) == RangeLen(SliceIndices(sl, length))

RangeItems(r) == [j \in 1..RangeLen(r) |-> r.start + (j - 1) * r.step]

\* Slice.range(length): the indices the slice selects, in order.
SliceRange(sl, length) == RangeItems(SliceIndices(sl, length))

\* LogicalFile.IFLRData, a named tuple, as the tuple it is.
IflrDataTuple(t) == <<t.frame_number, t.lrsh_position, t.x_axis>>

\* The record looked up at the first field of the entry.
ReaderCall_FirstField(positions, entry) ==
    [vr_position   |-> visible_record_prior(positions, entry[1]).val,
     lrsh_position |-> entry[1]]

\* rp66_file.get_file_logical_data(vr_position, lrsh_position), with
\* lrsh_position as the entry is destructured and vr_position the Visible
\* Record found for it.
ReaderCall(positions, entry) ==
    [vr_position   |-> visible_record_prior(positions,
                           HtmlDestructure(entry, 0).visible_record_prior_arg).val,
     lrsh_position |-> HtmlDestructure(entry, 0).lrsh_position]

\* Side-tables of the scan, the X axis left at one value.
FetchSideTables == {t \in SideTables : \A k \in 1..Len(t) : t[k].x_axis = PyIntNum(2)}

\* Visible Record positions: the first record of the file, then others.
FetchPositions == {<<80>>, <<80, 128>>, <<80, 176>>, <<80, 128, 176>>}

\* The slices asked for.
FrameSlices ==
    [start : {None, Some(0), Some(1)},
     stop  : {None, Some(1), Some(MaxFrames + 1)},
     step  : {None, Some(1), Some(2)}]

InitFf ==
    /\ RleIdle
    /\ FaIdle
    /\ IxIdle
    /\ VrIdle
    /\ LpIdle
    /\ MainIdle
    /\ LfwIdle
    /\ StIdle
    /\ ChIdle
    /\ ff_iflrs \in FetchSideTables
    /\ ff_positions \in FetchPositions
    /\ frame_slice \in FrameSlices
    /\ ff_rows = 0
    /\ ff_calls = <<>>
    /\ ff_stored = <<>>
    /\ ffpc = "frame_data"

\* The side-table is looked at: with entries the rows are allocated, one
\* more than the slice selects; without, 'No frames.' is written.
InitArrays ==
    /\ ffpc = "frame_data"
    /\ IF Len(ff_iflrs) # 0
       THEN /\ ff_rows' = SliceCount(frame_slice, Len(ff_iflrs)) + 1
            /\ ffpc' = "frames"
       ELSE /\ ff_rows' = ff_rows
            /\ ffpc' = "summary"
    /\ UNCHANGED <<ff_iflrs, ff_positions, frame_slice, ff_calls, ff_stored>>
    /\ UNCHANGED <<rleVars, faVars, ixVars, vrVars, lpVars, mainVars, lfwVars, stVars, chVars>>

\* One turn of the loop over enumerate(frame_slice.range(len(iflrs))): f is
\* the number of turns made, the record of the frame is fetched and the
\* frame is read into row f.
FetchFrame ==
    /\ ffpc = "frames"
    /\ Len(ff_stored) < Len(SliceRange(frame_slice, Len(ff_iflrs)))
    /\ ff_calls' = Append(ff_calls,
           ReaderCall(ff_positions, IflrDataTuple(
               ff_iflrs[SliceRange(frame_slice, Len(ff_iflrs))[Len(ff_stored) + 1] + 1])))
    /\ ff_stored' = Append(ff_stored,
           [frame_number |-> SliceRange(frame_slice, Len(ff_iflrs))[Len(ff_stored) + 1],
            f            |-> Len(ff_stored)])
    /\ UNCHANGED <<ff_iflrs, ff_positions, frame_slice, ff_rows, ffpc>>
    /\ UNCHANGED <<rleVars, faVars, ixVars, vrVars, lpVars, mainVars, lfwVars, stVars, chVars>>

\* The loop has ended and the table of the channels is written.
EndFrames ==
    /\ ffpc = "frames"
    /\ Len(ff_stored) = Len(SliceRange(frame_slice, Len(ff_iflrs)))
    /\ ffpc' = "summary"
    /\ UNCHANGED <<ff_iflrs, ff_positions, frame_slice, ff_rows, ff_calls, ff_stored>>
    /\ UNCHANGED <<rleVars, faVars, ixVars, vrVars, lpVars, mainVars, lfwVars, stVars, chVars>>

NextFf ==
    \/ InitArrays
    \/ FetchFrame
    \/ EndFrames

SpecFf == InitFf /\ [][NextFf]_vars

\* The frames of the side-table the slice selects, as places in the table
\* counted from 0.
SelectedFrames ==
    {i \in 0..(Len(ff_iflrs) - 1) :
        /\ IsNone(frame_slice.start) \/ i >= frame_slice.start[1]
        /\ IsNone(frame_slice.stop) \/ i < frame_slice.stop[1]
        /\ \/ IsNone(frame_slice.step)
           \/ (i - (IF IsNone(frame_slice.start) THEN 0 ELSE frame_slice.start[1]))
                  % frame_slice.step[1] = 0}

\* The greatest Visible Record position not above p.
GreatestNotAbove(p) ==
    CHOOSE v \in ChildSet(ff_positions) :
        /\ v <= p
        /\ \A w \in ChildSet(ff_positions) : w <= p => w <= v

\* C26: for each selected frame the file reader is called exactly once with
\* the greatest Visible Record position not above the frame's lrsh_position
\* and that lrsh_position; the frames are fetched in the order of the slice;
\* the frame fetched at ordinal f is stored in row f, a row below the number
\* of rows allocated; and an empty side-table causes no call of the reader.
C26_FrameFetch ==
    /\ Len(ff_calls) = Len(ff_stored)
    /\ \A k \in 1..Len(ff_stored) :
          /\ ff_stored[k].frame_number \in SelectedFrames
          /\ ff_stored[k].f = k - 1
          /\ ff_stored[k].f < ff_rows
          /\ k > 1 => ff_stored[k - 1].frame_number < ff_stored[k].frame_number
          /\ ff_calls[k].lrsh_position = ff_iflrs[ff_stored[k].frame_number + 1].lrsh_position
          /\ ff_calls[k].vr_position =
                 GreatestNotAbove(ff_iflrs[ff_stored[k].frame_number + 1].lrsh_position)
    /\ ffpc = "summary" =>
          {ff_stored[k].frame_number : k \in 1..Len(ff_stored)} = SelectedFrames
    /\ Len(ff_iflrs) = 0 => ff_calls = <<>>

\* Two frames were fetched, the second from another Visible Record than the
\* first.
C26_Witness ==
    /\ ffpc = "summary"
    /\ Len(ff_calls) = 2
    /\ ff_calls[1].vr_position # ff_calls[2].vr_position


\* ---------------------------------------------------------------------------
\* The declared count of Logical Files.

\* The LogicalFiles element of the document and the LogicalFile elements in it.
DeclaredCount == IntegerOf(doc.LogicalFiles[1].count)

LogicalFileElements == Len(doc.LogicalFiles[1].LogicalFile)

\* C27: read_logical_index_from_xml fails, and returns no index, whenever
\* the 'count' attribute of LogicalFiles differs from the number of
\* LogicalFile elements it read; an index is returned only when they are
\* equal.
C27_DeclaredCount ==
    (ReadEnded /\ doc \in CountDocuments) =>
        /\ DeclaredCount # LogicalFileElements =>
              /\ ipc = "failed"
              /\ logical_index = <<>>
        /\ ipc = "done" =>
              /\ DeclaredCount = LogicalFileElements
              /\ Len(logical_index.logical_files) = LogicalFileElements

\* Every LogicalFile element was read and the count, one more, failed the
\* read.
C27_Witness ==
    /\ doc \in CountDocuments
    /\ LogicalFileElements = Len(BaseLogicalFiles)
    /\ DeclaredCount = LogicalFileElements + 1
    /\ lf_next = LogicalFileElements + 1
    /\ read_exc = "ExceptionRP66V1IndexXMLRead(count)"


\* ---------------------------------------------------------------------------
\* Validation before file access.

\* The calls of the record reader made so far.
ReaderCalls(evs) == SelectSeq(evs, LAMBDA e : e.op = "get_file_logical_data")

\* The frames the IFLR element of the document declares, and those its
\* blocks hold.
DeclaredFrames ==
    IntegerOf(doc.LogicalFiles[1].LogicalFile[1].LogPass[1].FrameArray[1].IFLR[1].count)

FramesHeld == Len(DocIndex.logical_files[1].iflr_position_map[1].val)

\* C28: a LogicalFile element that breaks the ordering rule makes
\* read_logical_file_from_xml raise before any call of the record reader for
\* that Logical File; and the length check of the IFLR element of a
\* FrameArray is made when the element is read, so that no triple of an
\* element that fails it reaches a side-table.
C28_ValidationFirst ==
    /\ [][(ipc = "logical_file" /\ BadOrdering(LogicalFileNodes[lf_next]))
             => /\ ipc' = "failed"
                /\ read_exc' \in MalformedLogicalFile
                /\ ReaderCalls(events') = ReaderCalls(events)]_vars
    /\ []((ReadEnded /\ SourceFileExists /\ doc \in LengthDocuments
              /\ DeclaredFrames # FramesHeld)
             => /\ ipc = "failed"
                /\ read_exc \in {"ExceptionFrameArrayInit", "ValueError"}
                /\ logical_index = <<>>)

\* The second LogicalFile element broke the ordering rule, after the EFLRs
\* of the first had been fetched.
C28_Witness ==
    /\ doc \in OrderingDocuments
    /\ ipc = "failed" /\ read_exc \in MalformedLogicalFile
    /\ lf_next = 2 /\ BadOrdering(LogicalFileNodes[2])
    /\ Len(ReaderCalls(events)) = Len(LogicalFileNodes[1].EFLR)


\* ---------------------------------------------------------------------------
\* The two modes of the batch.

\* The input path, exception flag and ignored flag of every result of a dict
\* of results.
FlagsOf(results) ==
    {<<results[i].path_input, results[i].exception, results[i].ignored>> :
        i \in 1..Len(results)}

\* The same of the dict index_dir_or_file returns for a walk.
SequentialFlags(walk) ==
    FlagsOf([i \in 1..Len(walk) |-> index_a_single_file(walk[i], batch_files[walk[i]]).val])

\* C29: for the same directory, output prefix, private flag and recursion
\* setting, the parallel mode returns a dict with the input paths of the
\* dict the sequential mode returns and the same exception and ignored
\* flags for each path; with recursion disabled neither mode indexes a file
\* of a sub-directory.
C29_ModeEquivalence ==
    BatchReturned =>
        /\ FlagsOf(batch_result) = SequentialFlags(Walk(batch_files, recurse))
        /\ ~recurse =>
              \A i \in 1..Len(batch_result) : ~batch_files[batch_result[i].path_input].subdir


\* ---------------------------------------------------------------------------
\* What a failed file leaves at its output path.

\* The result collected for a file of the batch, if any.
ResultsFor(path_in) ==
    {batch_result[i] : i \in {j \in 1..Len(batch_result) :
                                 batch_result[j].path_input = path_in}}

\* C30: whenever index_a_single_file returns a result with exception=True,
\* no index document is left at path_out + '.xml'; a document is there only
\* for a result with exception=False and ignored=False, and then it is a
\* complete document.
C30_NoPartialIndex ==
    \A path_in \in 1..Len(batch_files) : \A r \in ResultsFor(path_in) :
        /\ r.exception => outputs[path_in] = "absent"
        /\ outputs[path_in] # "absent" =>
              /\ ~r.exception /\ ~r.ignored
              /\ outputs[path_in] = "complete"

====
